---- MODULE Spec2Model ----
(***************************************************************************)
(* Valuation and merge pipeline of the Sagix portfolio tracker:            *)
(* GET /api/balances (routes/balances.js), the Moralis service             *)
(* (services/moralis.js) and the NAV resolver (services/navPricing.js).    *)
(*                                                                         *)
(* Money is counted in cents, so DUST_THRESHOLD_USD = 1.0 is 100.          *)
(* JavaScript null / undefined is the value NULL.                          *)
(***************************************************************************)
EXTENDS Integers, Sequences, FiniteSets, TLC

\* ------------------------------------------------------------------ bounds
MaxWallet == 2        \* tokens in one chain's wallet response
MaxDefi == 2          \* positions in one chain's DeFi response
MaxQueries == 4       \* queries handed to batchedRequests
MaxBatchSize == 2     \* batchSize of batchedRequests
MaxSeries == 3        \* length of the series handed to calculateSharpeRatio
MaxRequests == 2      \* valuation requests in flight at once

\* --------------------------------------------------------------- constants
NULL == 0 - 1
DUST_THRESHOLD_USD == 100
ADDR_HEX_LEN == 40

\* ------------------------------------------------------- JavaScript idioms
\* x || null
OrNull(x) == IF x = NULL \/ x = 0 THEN NULL ELSE x
\* x || 0
OrZero(x) == IF x = NULL THEN 0 ELSE x
\* truthiness of a number-or-null
Truthy(x) == x # NULL /\ x # 0

\* A percentage is a quotient of two numbers of cents and is kept exact, as
\* the fraction num / den.
Percent(num, den) == [num |-> num, den |-> den]

RECURSIVE SeqSum(_)
SeqSum(s) == IF s = <<>> THEN 0 ELSE Head(s) + SeqSum(Tail(s))

RECURSIVE Flatten(_)
Flatten(ss) == IF ss = <<>> THEN <<>> ELSE Head(ss) \o Flatten(Tail(ss))

Range(s) == {s[i] : i \in 1..Len(s)}

\* --------------------------------------------------------------- addresses
\* A request's address is a sequence of characters.
HexChars == {"0", "1", "9", "a", "f", "A", "F"}

Rep(c, n) == [i \in 1..n |-> c]

\* String.prototype.toLowerCase, character by character
LowerChar(c) == CASE c = "A" -> "a" [] c = "F" -> "f" [] c = "X" -> "x" [] OTHER -> c
ToLowerCase(s) == [i \in 1..Len(s) |-> LowerChar(s[i])]

\* The test without its end anchor: /^0x[a-fA-F0-9]{40}/
AddressRegexTest_Unanchored(a) ==
    /\ Len(a) >= 2 + ADDR_HEX_LEN
    /\ a[1] = "0"
    /\ a[2] = "x"
    /\ \A i \in 3..(2 + ADDR_HEX_LEN) : a[i] \in HexChars

\* /^0x[a-fA-F0-9]{40}$/.test(address)
AddressRegexTest(a) ==
    /\ Len(a) = 2 + ADDR_HEX_LEN
    /\ a[1] = "0"
    /\ a[2] = "x"
    /\ \A i \in 3..Len(a) : a[i] \in HexChars

\* !address || !regex.test(address)   (a missing address is the empty one)
AddressRejected(a) == a = <<>> \/ ~AddressRegexTest(a)

ValidMixed == <<"0", "x">> \o Rep("A", 20) \o Rep("9", 20)
AddressInputs ==
    { <<>>,
      ValidMixed,
      <<"0", "x">> \o Rep("a", ADDR_HEX_LEN - 1),
      <<"0", "x">> \o Rep("a", ADDR_HEX_LEN + 1),
      <<"0", "X">> \o Rep("a", ADDR_HEX_LEN),
      <<"0", "x">> \o Rep("a", ADDR_HEX_LEN - 1) \o <<"g">>,
      <<"0", "x", "g">> \o Rep("a", ADDR_HEX_LEN - 1),
      Rep("a", ADDR_HEX_LEN + 2) }

\* A token contract address: which contract, and whether the string is all
\* lower case (a checksummed address is not).
Addr(id, lower) == [id |-> id, lower |-> lower]
NoAddr == Addr("null", TRUE)
AddrLower(a) == [a EXCEPT !.lower = TRUE]

\* ------------------------------------------------------------------ chains
SUPPORTED_CHAINS == <<1, 8453>>
ChainIndex == 1..Len(SUPPORTED_CHAINS)

\* ---------------------------------------------------------- static tables
\* DEFI_PROTOCOL_TOKENS: protocol -> chain -> receipt token addresses
DefiProtocols == <<"EtherFi", "Rocket Pool", "Lido">>
DEFI_PROTOCOL_TOKENS(protocol, chainId) ==
    CASE protocol = "EtherFi" /\ chainId = 1 -> {Addr("weeth", TRUE)}
      [] protocol = "Rocket Pool" /\ chainId = 1 -> {Addr("reth", TRUE)}
      [] protocol = "Lido" /\ chainId = 1 -> {Addr("wsteth", TRUE)}
      [] OTHER -> {}

\* SPAM_SYMBOLS: chain -> blocked symbols
SPAM_SYMBOLS(chainId) == IF chainId = 1 THEN {"ETHG"} ELSE {}

\* PRICE_REDIRECTS: token address -> (chain, reference token)
RedirectAddrs == {Addr("sethfi", TRUE)}
PRICE_REDIRECTS(a) == [chainId |-> 1, lookupAddress |-> Addr("ethfi", TRUE)]

\* RSR_ADDRESS and RSR_DERIVED_TOKENS
RSR_ADDRESS == Addr("rsr", TRUE)
RSR_DERIVED_TOKENS(chainId) == IF chainId = 1 THEN {Addr("vlrsr", TRUE)} ELSE {}

\* ------------------------------------------------- the provider's universe
\* What the token contracts are: symbol, and whether the name carries a scam
\* link (SPAM_NAME_PATTERNS).
SymbolOf(id) ==
    CASE id = "weeth" -> "weETH" [] id = "ausdc" -> "aUSDC" [] id = "pepe" -> "PEPE"
      [] id = "ixedel" -> "ixEdel" [] id = "ixeth" -> "ixETH" [] id = "vlrsr" -> "vlRSR"
      [] id = "sethfi" -> "sETHFI" [] id = "ethg" -> "ETHG" [] id = "usdcb" -> "USDC"
      [] id = "ethplus" -> "ETH+" [] OTHER -> id
ScamName(id) == id = "visit"

\* The provider's market price of a token, in cents; NULL when it has none.
MarketPrice(id) ==
    CASE id = "weeth" -> 300 [] id = "ausdc" -> 100 [] id = "pepe" -> 40
      [] id = "sethfi" -> 900 [] id = "ethfi" -> 200 [] id = "rsr" -> 50
      [] id = "ethg" -> 100 [] id = "usdcb" -> 100
      [] id = "u1" -> 100 [] id = "u2" -> 200
      [] OTHER -> NULL

\* ------------------------------------------------ provider wallet responses
\* One entry of getWalletTokenBalancesPrice: the provider prices a token at
\* its market price and values it at balance x price; a token it cannot
\* price has neither.
ProviderToken(id, bal, pct) ==
    [tok |-> id, tokenAddress |-> Addr(id, FALSE), balanceFormatted |-> bal,
     usdPrice |-> MarketPrice(id),
     usdValue |-> IF MarketPrice(id) = NULL THEN NULL ELSE bal * MarketPrice(id),
     portfolioPercentage |-> pct]

WalletCandidates(chainId) ==
    IF chainId = 1
    THEN << ProviderToken("pepe", 1, 0), ProviderToken("weeth", 1, 60),
            ProviderToken("ixedel", 2, 50), ProviderToken("ausdc", 2, 0),
            ProviderToken("ixeth", 1, 0), ProviderToken("vlrsr", 3, 0),
            ProviderToken("sethfi", 1, 0), ProviderToken("ethg", 1, 0) >>
    ELSE << ProviderToken("usdcb", 3, 0) >>

\* The elements of cand at the indices of I, in the order of cand.
PickSeq(cand, I) ==
    LET idx == SelectSeq([i \in 1..Len(cand) |-> i], LAMBDA i : i \in I)
    IN  [k \in 1..Len(idx) |-> cand[idx[k]]]

WalletResponses(chainId) ==
    LET cand == WalletCandidates(chainId)
    IN  { PickSeq(cand, I) : I \in {J \in SUBSET (1..Len(cand)) : Cardinality(J) <= MaxWallet} }

\* The outcome of one chain's query: it failed, or it returned a result.
Failed == [ok |-> FALSE, result |-> <<>>]
Returned(r) == [ok |-> TRUE, result |-> r]

\* ------------------------------------------------------------ the holdings
\* getChainTokenBalances: the mapping of one provider entry to a holding.
\* origin and tokenType are bookkeeping of where a holding came from; the
\* program does not read them.
NormaliseWalletToken(chainId, t) ==
    [chainId |-> chainId,
     tokenAddress |-> AddrLower(t.tokenAddress),
     symbol |-> SymbolOf(t.tok),
     scamName |-> ScamName(t.tok),
     balanceFormatted |-> OrZero(t.balanceFormatted),
     usdPrice |-> OrNull(t.usdPrice),
     usdValue |-> OrNull(t.usdValue),
     priceSource |-> IF Truthy(t.usdPrice) THEN "market" ELSE "null",
     portfolioPercentage |-> Percent(OrZero(t.portfolioPercentage), 1),
     isDefiPosition |-> FALSE,
     defiProtocol |-> "none",
     defiPositionType |-> "none",
     allUnderlyingPriced |-> "none",
     origin |-> "wallet",
     tokenType |-> "none"]

getChainTokenBalances(chainId, response) ==
    [i \in 1..Len(response) |-> NormaliseWalletToken(chainId, response[i])]

\* The filter with `>` in place of `>=`: a value of exactly 1.00 is dropped.
NotDust_AboveThreshold(t) == t.usdValue = NULL \/ t.usdValue > DUST_THRESHOLD_USD

\* token.usdValue === null || token.usdValue >= DUST_THRESHOLD_USD
NotDust(t) == t.usdValue = NULL \/ t.usdValue >= DUST_THRESHOLD_USD

ChainError(chainId) == [source |-> "none", chain |-> chainId]

\* getMultiChainBalances with Promise.all in place of Promise.allSettled
getMultiChainBalances_PromiseAll(initOk, results) ==
    IF ~initOk \/ \E i \in ChainIndex : ~results[i].ok
    THEN [status |-> "rejected", tokens |-> <<>>, errors |-> <<>>]
    ELSE [status |-> "fulfilled",
          tokens |-> SelectSeq(Flatten([i \in ChainIndex |->
                        getChainTokenBalances(SUPPORTED_CHAINS[i], results[i].result)]),
                        NotDust),
          errors |-> <<>>]

\* getMultiChainBalances: results is the settled outcome of each chain's
\* getChainTokenBalances, in the order of SUPPORTED_CHAINS.
getMultiChainBalances(initOk, results) ==
    IF ~initOk
    THEN [status |-> "rejected", tokens |-> <<>>, errors |-> <<>>]
    ELSE
      LET perChain == [i \in ChainIndex |->
                         IF results[i].ok
                         THEN getChainTokenBalances(SUPPORTED_CHAINS[i], results[i].result)
                         ELSE <<>>]
          perErr == [i \in ChainIndex |->
                         IF results[i].ok THEN <<>>
                         ELSE <<ChainError(SUPPORTED_CHAINS[i])>>]
      IN  [status |-> "fulfilled",
           tokens |-> SelectSeq(Flatten(perChain), NotDust),
           errors |-> Flatten(perErr)]

\* ------------------------------------------------- provider DeFi responses
\* One constituent token of getDefiPositionsSummary.  The provider may leave
\* usdPrice or usdValue out of an entry (NULL), each on its own.
DefiToken(id, lower, bal, price, value, type) ==
    [tok |-> id, tokenAddress |-> Addr(id, lower), balanceFormatted |-> bal,
     usdPrice |-> price, usdValue |-> value, tokenType |-> type]

DefiPosition(protocol, label, toks) ==
    [protocolName |-> protocol, label |-> label, tokens |-> toks]

DefiCandidates(chainId) ==
    IF chainId = 1
    THEN << DefiPosition("EtherFi", "staking",
                <<DefiToken("weeth", TRUE, 1, 300, 300, "staked")>>),
            DefiPosition("Aave", "lending",
                <<DefiToken("ausdc", TRUE, 2, 100, 200, "supply"),
                  DefiToken("usdt", TRUE, 3, 100, 300, "borrow")>>),
            DefiPosition("Uniswap", "liquidity",
                <<DefiToken("ausdc", TRUE, 2, NULL, 200, "lp"),
                  DefiToken("pepe", TRUE, 1, 40, 40, "lp"),
                  DefiToken("ethg", TRUE, 2, 100, 200, "reward")>>),
            DefiPosition("Reserve", "deposit",
                <<DefiToken("ixedel", FALSE, 1, NULL, NULL, "deposit"),
                  DefiToken("ixeth", TRUE, 3, NULL, NULL, "deposit")>>) >>
    ELSE << >>

\* Responses list positions in the order of the candidates, a position
\* possibly more than once.
DefiResponses(chainId) ==
    LET cand == DefiCandidates(chainId)
        idxs == UNION { [1..n -> 1..Len(cand)] : n \in 0..MaxDefi }
    IN  { [k \in 1..Len(s) |-> cand[s[k]]] :
            s \in {q \in idxs : \A i, j \in 1..Len(q) : i < j => q[i] <= q[j]} }

\* ------------------------------------------------------ fetchDefiPositions
\* tokenList.map(...) of fetchDefiPositions
MapDefiToken(t) ==
    LET balance == OrZero(t.balanceFormatted)
        price == t.usdPrice
        valueUsd == t.usdValue
        computedValue == IF valueUsd # NULL THEN valueUsd
                         ELSE IF price # NULL /\ balance > 0 THEN balance * price
                         ELSE NULL
    IN  [symbol |-> SymbolOf(t.tok), scamName |-> ScamName(t.tok),
         balance |-> balance, price |-> price, valueUsd |-> computedValue,
         tokenAddress |-> t.tokenAddress, tokenType |-> t.tokenType]

TokensTotal(toks) == SeqSum([i \in 1..Len(toks) |-> OrZero(toks[i].valueUsd)])

MapDefiPosition(chainId, pos) ==
    LET mappedTokens == [i \in 1..Len(pos.tokens) |-> MapDefiToken(pos.tokens[i])]
    IN  [chainId |-> chainId, protocol |-> pos.protocolName,
         positionType |-> pos.label, tokens |-> mappedTokens,
         totalValueUsd |-> TokensTotal(mappedTokens)]

\* getTokenPrice: the provider's price of the token, or null when the call
\* fails (the catch of getTokenPrice) -- ok says whether the call succeeds.
getTokenPrice(tokenAddress, ok) ==
    IF ok /\ MarketPrice(tokenAddress.id) # NULL THEN MarketPrice(tokenAddress.id) ELSE NULL

\* The tokens of all positions with no price and an address, in order.
UnpricedTokens(positions) ==
    Flatten([p \in 1..Len(positions) |->
        SelectSeq([i \in 1..Len(positions[p].tokens) |-> positions[p].tokens[i]],
                  LAMBDA t : t.price = NULL /\ t.tokenAddress # NoAddr)])

\* The body of `for (const result of priceResults)` for one result.
ApplyDefiPrice(positions, tokenAddress, usdPrice) ==
    [p \in 1..Len(positions) |->
        LET toks == [i \in 1..Len(positions[p].tokens) |->
                        LET t == positions[p].tokens[i]
                        IN  IF t.tokenAddress = tokenAddress /\ t.price = NULL
                            THEN [t EXCEPT !.price = usdPrice,
                                           !.valueUsd = IF t.balance > 0
                                                        THEN t.balance * usdPrice ELSE 0]
                            ELSE t]
        IN  [positions[p] EXCEPT !.tokens = toks, !.totalValueUsd = TokensTotal(toks)]]

RECURSIVE RepriceDefi(_, _, _, _)
RepriceDefi(positions, unpriced, k, okCalls) ==
    IF k > Len(unpriced) THEN positions
    ELSE LET price == getTokenPrice(unpriced[k].tokenAddress, k \in okCalls)
         IN  RepriceDefi(IF Truthy(price)
                         THEN ApplyDefiPrice(positions, unpriced[k].tokenAddress, price)
                         ELSE positions,
                         unpriced, k + 1, okCalls)

\* fetchDefiPositions: results is the outcome of each chain's
\* getDefiPositionsSummary, okCalls the price lookups that succeed.
fetchDefiPositions(initOk, results, okCalls) ==
    IF ~initOk
    THEN [status |-> "rejected", positions |-> <<>>, errors |-> <<>>]
    ELSE
      LET perChain == [i \in ChainIndex |->
                         IF results[i].ok
                         THEN [k \in 1..Len(results[i].result) |->
                                 MapDefiPosition(SUPPORTED_CHAINS[i], results[i].result[k])]
                         ELSE <<>>]
          perErr == [i \in ChainIndex |->
                         IF results[i].ok THEN <<>>
                         ELSE <<ChainError(SUPPORTED_CHAINS[i])>>]
          positions == Flatten(perChain)
      IN  [status |-> "fulfilled",
           positions |-> RepriceDefi(positions, UnpricedTokens(positions), 1, okCalls),
           errors |-> Flatten(perErr)]

\* ----------------------------------------------------- routes/balances.js
\* isSpamToken
isSpamToken(token) ==
    \/ token.symbol \in SPAM_SYMBOLS(token.chainId)
    \/ token.scamName

\* Step 1c with a failed lookup wiping the fetched price.
RedirectToken_WipeOnFailure(token, ok) ==
    IF token.tokenAddress = NoAddr THEN token
    ELSE IF AddrLower(token.tokenAddress) \notin RedirectAddrs THEN token
    ELSE LET usdPrice == getTokenPrice(PRICE_REDIRECTS(AddrLower(token.tokenAddress)).lookupAddress, ok)
         IN  IF Truthy(usdPrice)
             THEN [token EXCEPT !.usdPrice = usdPrice,
                                !.usdValue = token.balanceFormatted * usdPrice,
                                !.priceSource = "redirect"]
             ELSE [token EXCEPT !.usdPrice = NULL, !.usdValue = NULL,
                                !.priceSource = "null"]

\* Step 1c, the body of the loop for one wallet token; ok says whether the
\* reference-price lookup succeeds (a failed one returns null or throws into
\* the catch of the loop body).
RedirectToken(token, ok) ==
    IF token.tokenAddress = NoAddr THEN token
    ELSE IF AddrLower(token.tokenAddress) \notin RedirectAddrs THEN token
    ELSE LET redirect == PRICE_REDIRECTS(AddrLower(token.tokenAddress))
         IN  IF redirect.chainId \notin Range(SUPPORTED_CHAINS) THEN token
             ELSE LET usdPrice == getTokenPrice(redirect.lookupAddress, ok)
                  IN  IF Truthy(usdPrice)
                      THEN [token EXCEPT !.usdPrice = usdPrice,
                                         !.usdValue = token.balanceFormatted * usdPrice,
                                         !.priceSource = "redirect"]
                      ELSE token

NeedsRedirect(token) ==
    token.tokenAddress # NoAddr /\ AddrLower(token.tokenAddress) \in RedirectAddrs

\* Step 1c: what the reference-price lookup for one wallet token returned --
\* NULL when it failed or had no price -- and whether there was one.
LookedUp(token, ok) ==
    IF NeedsRedirect(token)
    THEN [looked |-> TRUE,
          usdPrice |-> getTokenPrice(PRICE_REDIRECTS(AddrLower(token.tokenAddress)).lookupAddress, ok)]
    ELSE [looked |-> FALSE, usdPrice |-> NULL]

\* Step 2: one DeFi position token as a holding
DefiHolding(pos, token) ==
    [chainId |-> pos.chainId,
     tokenAddress |-> token.tokenAddress,
     symbol |-> token.symbol,
     scamName |-> token.scamName,
     balanceFormatted |-> token.balance,
     usdPrice |-> token.price,
     usdValue |-> token.valueUsd,
     priceSource |-> IF Truthy(token.price) THEN "defi" ELSE "null",
     portfolioPercentage |-> Percent(0, 1),
     isDefiPosition |-> TRUE,
     defiProtocol |-> pos.protocol,
     defiPositionType |-> pos.positionType,
     allUnderlyingPriced |-> "none",
     origin |-> "defi",
     tokenType |-> token.tokenType]

\* Step 2: the holdings of the tokens of all positions, known dust dropped
DefiHoldings(positions) ==
    Flatten([p \in 1..Len(positions) |->
        LET kept == SelectSeq(positions[p].tokens,
                       LAMBDA t : ~(t.valueUsd # NULL /\ t.valueUsd < DUST_THRESHOLD_USD))
        IN  [i \in 1..Len(kept) |-> DefiHolding(positions[p], kept[i])]])

\* Step 2b, for one wallet token: every protocol of the table whose address
\* list for the token's chain includes the token's address tags it.
RECURSIVE TagWith(_, _)
TagWith(token, protocols) ==
    IF protocols = <<>> THEN token
    ELSE LET protocol == Head(protocols)
             tagged == IF token.tokenAddress \in DEFI_PROTOCOL_TOKENS(protocol, token.chainId)
                       THEN [token EXCEPT !.isDefiPosition = TRUE,
                                          !.defiProtocol = protocol,
                                          !.defiPositionType = "staking"]
                       ELSE token
         IN  TagWith(tagged, Tail(protocols))

TagToken(token) == IF token.tokenAddress = NoAddr THEN token ELSE TagWith(token, DefiProtocols)

\* Step 2c
Key(t) == <<t.chainId, t.symbol>>
TaggedKeys(wallet) == { Key(wallet[i]) : i \in {j \in 1..Len(wallet) : wallet[j].isDefiPosition} }
\* Step 2c left out: every DeFi holding is merged.
DedupDefi_KeepAll(wallet, holdings) == holdings

DedupDefi(wallet, holdings) == SelectSeq(holdings, LAMBDA t : Key(t) \notin TaggedKeys(wallet))

\* ------------------------------------------------- services/navPricing.js
\* KNOWN_DTFS as the module defines it: chain 1 lists ixEdel before ixETH.
Dtf(chainId, symbol, address, type) ==
    [chainId |-> chainId, symbol |-> symbol, address |-> address, type |-> type]
KNOWN_DTFS_STATIC ==
    << Dtf(1, "ixEdel", Addr("ixedel", TRUE), "folio"),
       Dtf(1, "ixETH", Addr("ixeth", TRUE), "folio") >>

\* The chains getProvider has an RPC URL for (both have a default URL).
RpcChains == {1, 8453}

\* What a composite token's contract may answer for one share: the basket
\* (underlying address as the chain returns it, quantity per unit).
Under(id, qty) == [address |-> Addr(id, FALSE), quantityPerUnit |-> qty]
BasketChoices(id) ==
    CASE id = "ixedel" -> { <<>>, <<Under("u1", 1)>>, <<Under("u1", 1), Under("u2", 1)>>,
                            <<Under("ixeth", 1), Under("u1", 1)>> }
      [] id = "ixeth" -> { <<Under("ixedel", 1)>>, <<Under("ixedel", 1), Under("pepe", 1)>> }
      [] OTHER -> { <<>>, <<Under("u1", 1)>> }

\* The answers of the chain and of the price provider during one token's
\* resolution: whether a contract call fails, the basket handler status,
\* the basket, and the price lookups (by basket position) that succeed.
World(throws, status, basket, okPrices) ==
    [throws |-> throws, status |-> status, basket |-> basket, okPrices |-> okPrices]
Worlds(id) ==
    {World(TRUE, 0, <<>>, {})} \cup
    { World(FALSE, st, b, ok) : st \in {0}, b \in BasketChoices(id), ok \in SUBSET (1..2) }

Thrown == [kind |-> "throw"]
NullNav == [kind |-> "null"]

\* The basket loop looking the override map up by the address as the chain
\* returned it (not lower-cased).
BasketTokens_RawLookup(basket, priceOverrides, okPrices) ==
    [i \in 1..Len(basket) |->
        LET overridden == basket[i].address \in DOMAIN priceOverrides
            tokenUsdPrice == IF overridden THEN priceOverrides[basket[i].address]
                             ELSE OrNull(getTokenPrice(basket[i].address, i \in okPrices))
        IN  [address |-> basket[i].address,
             quantityPerUnit |-> basket[i].quantityPerUnit,
             usdPrice |-> tokenUsdPrice,
             usdValue |-> IF tokenUsdPrice # NULL
                          THEN basket[i].quantityPerUnit * tokenUsdPrice ELSE NULL,
             fromOverride |-> overridden]]

\* The loop over the basket, shared by calculateFolioNAV and
\* calculateRTokenNAV: each underlying priced from the override map if it
\* has an entry, from the market otherwise.
BasketTokens(basket, priceOverrides, okPrices) ==
    [i \in 1..Len(basket) |->
        LET addrLower == AddrLower(basket[i].address)
            overridden == addrLower \in DOMAIN priceOverrides
            tokenUsdPrice == IF overridden THEN priceOverrides[addrLower]
                             ELSE OrNull(getTokenPrice(basket[i].address, i \in okPrices))
        IN  [address |-> basket[i].address,
             quantityPerUnit |-> basket[i].quantityPerUnit,
             usdPrice |-> tokenUsdPrice,
             usdValue |-> IF tokenUsdPrice # NULL
                          THEN basket[i].quantityPerUnit * tokenUsdPrice ELSE NULL,
             fromOverride |-> overridden]]

\* The acceptance test as `navUsd < 0`: a zero total is accepted.
NavOf_AcceptZero(address, chainId, basketTokens, basketStatus) ==
    LET navUsd == SeqSum([i \in 1..Len(basketTokens) |-> OrZero(basketTokens[i].usdValue)])
        unpricedCount == Cardinality({i \in 1..Len(basketTokens) : basketTokens[i].usdValue = NULL})
    IN  IF navUsd < 0 THEN NullNav
        ELSE [kind |-> "nav", rTokenAddress |-> address, chainId |-> chainId,
              navPerToken |-> navUsd, basketTokens |-> basketTokens,
              allUnderlyingPriced |-> (unpricedCount = 0),
              basketStatus |-> basketStatus]

NavOf(address, chainId, basketTokens, basketStatus) ==
    LET navUsd == SeqSum([i \in 1..Len(basketTokens) |-> OrZero(basketTokens[i].usdValue)])
        unpricedCount == Cardinality({i \in 1..Len(basketTokens) : basketTokens[i].usdValue = NULL})
    IN  IF navUsd <= 0 THEN NullNav
        ELSE [kind |-> "nav", rTokenAddress |-> address, chainId |-> chainId,
              navPerToken |-> navUsd, basketTokens |-> basketTokens,
              allUnderlyingPriced |-> (unpricedCount = 0),
              basketStatus |-> basketStatus]

calculateFolioNAV(folioAddress, chainId, priceOverrides, w) ==
    IF chainId \notin RpcChains \/ chainId \notin Range(SUPPORTED_CHAINS) THEN Thrown
    ELSE IF w.throws THEN Thrown
    ELSE IF Len(w.basket) = 0 THEN NullNav
    ELSE NavOf(folioAddress, chainId, BasketTokens(w.basket, priceOverrides, w.okPrices), "FOLIO")

calculateRTokenNAV(rTokenAddress, chainId, priceOverrides, w) ==
    IF chainId \notin RpcChains \/ chainId \notin Range(SUPPORTED_CHAINS) THEN Thrown
    ELSE IF w.throws THEN Thrown
    ELSE IF w.status = 2 THEN NullNav
    ELSE IF Len(w.basket) = 0 THEN NullNav
    ELSE NavOf(rTokenAddress, chainId, BasketTokens(w.basket, priceOverrides, w.okPrices),
               IF w.status = 0 THEN "SOUND" ELSE IF w.status = 1 THEN "IFFY" ELSE "UNKNOWN")

\* calculateDtfNAV: wFolio / wRToken are the worlds the two strategies meet.
calculateDtfNAV(address, chainId, knownType, priceOverrides, wFolio, wRToken) ==
    IF knownType = "folio" THEN calculateFolioNAV(address, chainId, priceOverrides, wFolio)
    ELSE IF knownType = "rtoken" THEN calculateRTokenNAV(address, chainId, priceOverrides, wRToken)
    ELSE LET first == calculateFolioNAV(address, chainId, priceOverrides, wFolio)
         IN  IF first = Thrown
             THEN calculateRTokenNAV(address, chainId, priceOverrides, wRToken)
             ELSE first

\* Object.entries(dtfsByChain): the registered tokens grouped by chain, the
\* chains in ascending order of their id, each chain in registration order.
DtfChainOrder == <<1, 10, 8453>>
DtfOrder(dtfs) ==
    Flatten([c \in 1..Len(DtfChainOrder) |->
                SelectSeq(dtfs, LAMBDA d : d.chainId = DtfChainOrder[c])])

\* tokensNeedingNav
NeedsNav(t, dtfs) ==
    /\ t.usdPrice = NULL
    /\ t.tokenAddress # NoAddr
    /\ \E i \in 1..Len(dtfs) :
          dtfs[i].chainId = t.chainId /\ AddrLower(dtfs[i].address) = AddrLower(t.tokenAddress)

\* tokensNeedingNav.find(...) for one registered token
HasMatchingToken(tokens, dtfs, dtf) ==
    \E i \in 1..Len(tokens) :
        /\ NeedsNav(tokens[i], dtfs)
        /\ tokens[i].chainId = dtf.chainId
        /\ AddrLower(tokens[i].tokenAddress) = AddrLower(dtf.address)

\* rsrDerivedTokens
IsRsrDerived(t) ==
    /\ t.usdPrice = NULL
    /\ t.tokenAddress # NoAddr
    /\ AddrLower(t.tokenAddress) \in RSR_DERIVED_TOKENS(t.chainId)

\* `${chainId}:${address}`
NavKey(chainId, address) == <<chainId, address>>

\* tokens.map(...) at the end of applyNavPricing, for one token
ApplyNav(token, navResults, rsrPrice) ==
    IF token.usdPrice # NULL THEN token
    ELSE IF token.tokenAddress = NoAddr THEN token
    ELSE IF NavKey(token.chainId, token.tokenAddress) \in DOMAIN navResults
    THEN LET nav == navResults[NavKey(token.chainId, token.tokenAddress)]
         IN  [token EXCEPT !.usdPrice = nav.navPerToken,
                           !.usdValue = token.balanceFormatted * nav.navPerToken,
                           !.priceSource = "nav",
                           !.allUnderlyingPriced =
                               IF nav.allUnderlyingPriced THEN "true" ELSE "false"]
    ELSE IF Truthy(rsrPrice) /\ AddrLower(token.tokenAddress) \in RSR_DERIVED_TOKENS(token.chainId)
    THEN [token EXCEPT !.usdPrice = rsrPrice,
                       !.usdValue = token.balanceFormatted * rsrPrice,
                       !.priceSource = "rsr-derived"]
    ELSE token

\* ---------------------------------------------- services/calculations.js
TotalValue(tokens) == SeqSum([i \in 1..Len(tokens) |-> OrZero(tokens[i].usdValue)])

\* Step 5 left out: the holdings keep the percentage they came with.
recalculatePortfolioPercentages_Skipped(tokens) == tokens

\* recalculatePortfolioPercentages: (usdValue / totalValue) * 100
recalculatePortfolioPercentages(tokens) ==
    LET totalValue == TotalValue(tokens)
    IN  IF totalValue <= 0 THEN tokens
        ELSE [i \in 1..Len(tokens) |->
                [tokens[i] EXCEPT !.portfolioPercentage =
                    IF tokens[i].usdValue # NULL
                    THEN Percent(tokens[i].usdValue * 100, totalValue)
                    ELSE Percent(0, 1)]]

\* Step 6 left out: the list stays in merge order.
SortByValue_Unsorted(tokens) == tokens

\* allTokens.sort((a, b) => (b.usdValue || 0) - (a.usdValue || 0)), a stable
\* sort: insertion of each element after the elements that do not sort
\* behind it
RECURSIVE InsertByValue(_, _)
InsertByValue(t, sorted) ==
    IF sorted = <<>> THEN <<t>>
    ELSE IF OrZero(Head(sorted).usdValue) >= OrZero(t.usdValue)
         THEN <<Head(sorted)>> \o InsertByValue(t, Tail(sorted))
         ELSE <<t>> \o sorted

RECURSIVE SortByValue(_)
SortByValue(tokens) ==
    IF tokens = <<>> THEN <<>>
    ELSE InsertByValue(tokens[Len(tokens)], SortByValue(SubSeq(tokens, 1, Len(tokens) - 1)))

\* ------------------------------------------------------ the state machine
VARIABLES
    pc,                 \* where the handler of GET /api/balances stands
    address,            \* req.query.address
    moralisInitialized, \* the flag of services/moralis.js
    knownDtfs,          \* KNOWN_DTFS
    externalCalls,      \* the kinds of external call issued so far
    chainOutcomes,      \* what each chain's balance query answered
    balancesResult,     \* the settled getMultiChainBalances
    defiResult,         \* the settled fetchDefiPositions
    walletTokens,
    defiPositions,
    allErrors,
    defiHoldings,
    dedupedDefi,
    allTokens,
    navPos,             \* position in the registered tokens of applyNavPricing
    navResults,
    priceOverrides,
    navTrace,           \* the resolutions of applyNavPricing so far
    priceData,          \* what each reference-price lookup of step 1c returned
    response

\* Step 1 of the handler seen call by call (initMoralis and the per-chain
\* queries of getMultiChainBalances and fetchDefiPositions).
VARIABLES
    apiKey,             \* whether process.env.MORALIS_API_KEY is set
    startCalls,         \* how often Moralis.start has been invoked
    task,               \* where each async function of step 1 stands
    balQuery,           \* each chain's getWalletTokenBalancesPrice call
    posQuery,           \* each chain's getDefiPositionsSummary call
    posChain            \* the chain the loop of fetchDefiPositions is at

step1Vars == <<apiKey, startCalls, task, balQuery, posQuery, posChain>>

\* One call of batchedRequests.
VARIABLES
    queries,            \* the queries, each named by the value it yields
    batchSize,
    batchPc,            \* where batchedRequests stands
    batchStart,         \* the loop variable i
    callState,          \* each query's call: not started, in flight, settled
    settled,            \* the results array
    delaysDone          \* how many inter-batch delays have elapsed

batchVars == <<queries, batchSize, batchPc, batchStart, callState, settled, delaysDone>>

\* One call of calculateSharpeRatio or of calculateCAGR.
VARIABLES
    dailyValues,        \* the series handed to calculateSharpeRatio
    sharpeResult,       \* what it returned
    cagrArgs,           \* beginningValue, endingValue, years of calculateCAGR
    cagrResult,         \* what it returned
    calcPc

calcVars == <<dailyValues, sharpeResult, cagrArgs, cagrResult, calcPc>>

\* One call of calculateDtfNAV.
VARIABLES
    dtfCall,            \* knownType and what the chain answers each strategy
    dtfTried,           \* the strategies the call ran, in order
    dtfResult,          \* what it returned or threw
    dtfPc

dtfVars == <<dtfCall, dtfTried, dtfResult, dtfPc>>

\* The loop of applyNavPricing in concurrent valuation requests; each
\* variable maps a request to the local of its call.
VARIABLES
    callPc,             \* where the loop of the call stands
    callTokens,         \* tokens, the argument of the call
    callPos,            \* the next registered token the loop looks at
    callInFlight,       \* the registered tokens whose calculateDtfNAV is pending
    callNavResults,     \* navResults of the call
    callOverrides,      \* priceOverrides of the call
    callTrace           \* the resolutions of the call that settled

navCallVars == <<callPc, callTokens, callPos, callInFlight, callNavResults,
                 callOverrides, callTrace>>

auxVars == <<step1Vars, batchVars, calcVars, dtfVars, navCallVars>>

vars == <<pc, address, moralisInitialized, knownDtfs, externalCalls, chainOutcomes,
          balancesResult, defiResult, walletTokens, defiPositions, allErrors,
          defiHoldings, dedupedDefi, allTokens, navPos, navResults, priceOverrides,
          navTrace, priceData, response, auxVars>>

\* The handler's variables apart from the flag of services/moralis.js.
pipelineVars == <<pc, address, knownDtfs, externalCalls, chainOutcomes,
                  balancesResult, defiResult, walletTokens, defiPositions, allErrors,
                  defiHoldings, dedupedDefi, allTokens, navPos, navResults,
                  priceOverrides, navTrace, priceData, response>>

NoResult == [status |-> "none"]
NoResponse == [kind |-> "none"]
EmptyMap == [x \in {} |-> NULL]

\* The async functions of step 1: getMultiChainBalances, fetchDefiPositions
\* and one getChainTokenBalances per chain.
BalancesTask == <<"getMultiChainBalances", 0>>
PositionsTask == <<"fetchDefiPositions", 0>>
ChainTask(i) == <<"getChainTokenBalances", i>>
Step1Tasks == {BalancesTask, PositionsTask} \cup {ChainTask(i) : i \in ChainIndex}

\* No call of step 1 has been made.
Step1Off ==
    /\ apiKey = TRUE
    /\ startCalls = 0
    /\ task = [t \in Step1Tasks |-> "idle"]
    /\ balQuery = [i \in ChainIndex |-> "none"]
    /\ posQuery = [i \in ChainIndex |-> "none"]
    /\ posChain = 0

\* batchedRequests has not been called.
BatchOff ==
    /\ queries = <<>>
    /\ batchSize = 1
    /\ batchPc = "off"
    /\ batchStart = 0
    /\ callState = <<>>
    /\ settled = <<>>
    /\ delaysDone = 0

\* Neither calculateSharpeRatio nor calculateCAGR has been called.
NoReturn == [kind |-> "none"]
CalcOff ==
    /\ dailyValues = <<>>
    /\ sharpeResult = NoReturn
    /\ cagrArgs = [beginningValue |-> 0, endingValue |-> 0, years |-> 0]
    /\ cagrResult = NoReturn
    /\ calcPc = "off"

\* calculateDtfNAV has not been called.
DtfOff ==
    /\ dtfCall = [knownType |-> "none"]
    /\ dtfTried = <<>>
    /\ dtfResult = NoReturn
    /\ dtfPc = "off"

\* No valuation request has called applyNavPricing.
Requests == 1..MaxRequests
NavCallOff ==
    /\ callPc = [r \in Requests |-> "off"]
    /\ callTokens = [r \in Requests |-> <<>>]
    /\ callPos = [r \in Requests |-> 0]
    /\ callInFlight = [r \in Requests |-> {}]
    /\ callNavResults = [r \in Requests |-> EmptyMap]
    /\ callOverrides = [r \in Requests |-> EmptyMap]
    /\ callTrace = [r \in Requests |-> <<>>]

AuxOff == Step1Off /\ BatchOff /\ CalcOff /\ DtfOff /\ NavCallOff

Init ==
    /\ pc = "request"
    /\ address \in AddressInputs
    /\ moralisInitialized = FALSE
    /\ knownDtfs = KNOWN_DTFS_STATIC
    /\ externalCalls = {}
    /\ chainOutcomes = [i \in ChainIndex |-> Failed]
    /\ balancesResult = NoResult
    /\ defiResult = NoResult
    /\ walletTokens = <<>>
    /\ defiPositions = <<>>
    /\ allErrors = <<>>
    /\ defiHoldings = <<>>
    /\ dedupedDefi = <<>>
    /\ allTokens = <<>>
    /\ navPos = 0
    /\ navResults = EmptyMap
    /\ priceOverrides = EmptyMap
    /\ navTrace = <<>>
    /\ priceData = <<>>
    /\ response = NoResponse
    /\ AuxOff

\* The address check at the head of the handler.
Validate ==
    /\ pc = "request"
    /\ UNCHANGED auxVars
    /\ IF AddressRejected(address)
       THEN /\ response' = [kind |-> "error400"]
            /\ pc' = "done"
       ELSE /\ response' = response
            /\ pc' = "fetch"
    /\ UNCHANGED <<address, priceData, moralisInitialized, knownDtfs, externalCalls, chainOutcomes,
                   balancesResult, defiResult, walletTokens, defiPositions, allErrors,
                   defiHoldings, dedupedDefi, allTokens, navPos, navResults,
                   priceOverrides, navTrace>>

BalanceOutcomes(i) ==
    {Failed} \cup { Returned(r) : r \in WalletResponses(SUPPORTED_CHAINS[i]) }
DefiOutcomes(i) ==
    {Failed} \cup { Returned(r) : r \in DefiResponses(SUPPORTED_CHAINS[i]) }

\* The positions of fetchDefiPositions before the price lookups.
MappedPositions(results) ==
    Flatten([i \in ChainIndex |->
                IF results[i].ok
                THEN [k \in 1..Len(results[i].result) |->
                        MapDefiPosition(SUPPORTED_CHAINS[i], results[i].result[k])]
                ELSE <<>>])

\* allErrors after both settled results are read (balances.js 73-108)
ErrorsOf(bal, defi) ==
    (IF bal.status = "fulfilled" THEN bal.errors
     ELSE <<[source |-> "balances", chain |-> 0]>>)
    \o
    (IF defi.status = "fulfilled"
     THEN [i \in 1..Len(defi.errors) |-> [defi.errors[i] EXCEPT !.source = "defi"]]
     ELSE <<[source |-> "defi", chain |-> 0]>>)

\* Step 1: Promise.allSettled([getMultiChainBalances, fetchDefiPositions]).
\* initMoralis of either call can fail only while the flag is still unset.
Fetch ==
    /\ pc = "fetch"
    /\ UNCHANGED auxVars
    /\ \E balInit \in BOOLEAN, defiInit \in BOOLEAN :
       \E b1 \in BalanceOutcomes(1), b2 \in BalanceOutcomes(2) :
       \E d1 \in DefiOutcomes(1), d2 \in DefiOutcomes(2) :
          LET balOut == <<b1, b2>>
              defiOut == <<d1, d2>>
              unpriced == Len(UnpricedTokens(MappedPositions(defiOut)))
          IN  /\ moralisInitialized => (balInit /\ defiInit)
              /\ ~balInit => balOut = [i \in ChainIndex |-> Failed]
              /\ ~defiInit => defiOut = [i \in ChainIndex |-> Failed]
              /\ \E okCalls \in SUBSET (1..unpriced) :
                   LET bal == getMultiChainBalances(balInit, balOut)
                       defi == fetchDefiPositions(defiInit, defiOut, okCalls)
                   IN  /\ chainOutcomes' = balOut
                       /\ balancesResult' = bal
                       /\ defiResult' = defi
                       /\ walletTokens' = IF bal.status = "fulfilled" THEN bal.tokens ELSE <<>>
                       /\ defiPositions' = IF defi.status = "fulfilled" THEN defi.positions ELSE <<>>
                       /\ allErrors' = ErrorsOf(bal, defi)
                       /\ moralisInitialized' = (moralisInitialized \/ balInit \/ defiInit)
                       /\ externalCalls' = externalCalls
                             \cup (IF moralisInitialized THEN {} ELSE {"start"})
                             \cup (IF balInit THEN {"balances"} ELSE {})
                             \cup (IF defiInit THEN {"positions"} ELSE {})
                             \cup (IF defiInit /\ unpriced > 0 THEN {"price"} ELSE {})
    /\ pc' = "spam"
    /\ UNCHANGED <<address, priceData, knownDtfs, defiHoldings, dedupedDefi, allTokens, navPos,
                   navResults, priceOverrides, navTrace, response>>

\* Step 1b
SpamFilter ==
    /\ pc = "spam"
    /\ UNCHANGED auxVars
    /\ walletTokens' = SelectSeq(walletTokens, LAMBDA t : ~isSpamToken(t))
    /\ pc' = "redirect"
    /\ UNCHANGED <<address, priceData, moralisInitialized, knownDtfs, externalCalls, chainOutcomes,
                   balancesResult, defiResult, defiPositions, allErrors, defiHoldings,
                   dedupedDefi, allTokens, navPos, navResults, priceOverrides, navTrace,
                   response>>

\* Step 1c: one reference-price lookup per wallet token of the redirect table
PriceRedirect ==
    /\ pc = "redirect"
    /\ UNCHANGED auxVars
    /\ \E okCalls \in SUBSET {i \in 1..Len(walletTokens) : NeedsRedirect(walletTokens[i])} :
          /\ walletTokens' = [i \in 1..Len(walletTokens) |->
                                 RedirectToken(walletTokens[i], i \in okCalls)]
          /\ priceData' = [i \in 1..Len(walletTokens) |->
                              LookedUp(walletTokens[i], i \in okCalls)]
    /\ externalCalls' = externalCalls \cup
          (IF \E i \in 1..Len(walletTokens) : NeedsRedirect(walletTokens[i])
           THEN {"price"} ELSE {})
    /\ pc' = "merge"
    /\ UNCHANGED <<address, moralisInitialized, knownDtfs, chainOutcomes, balancesResult,
                   defiResult, defiPositions, allErrors, defiHoldings, dedupedDefi,
                   allTokens, navPos, navResults, priceOverrides, navTrace, response>>

\* Steps 2, 2b, 2c and the merge; then the test that opens step 3
Merge ==
    /\ pc = "merge"
    /\ UNCHANGED auxVars
    /\ LET tagged == [i \in 1..Len(walletTokens) |-> TagToken(walletTokens[i])]
           holdings == DefiHoldings(defiPositions)
           deduped == DedupDefi(tagged, holdings)
           merged == tagged \o deduped
       IN  /\ walletTokens' = tagged
           /\ defiHoldings' = holdings
           /\ dedupedDefi' = deduped
           /\ allTokens' = merged
           /\ IF \E i \in 1..Len(merged) : merged[i].usdPrice = NULL
              THEN pc' = "nav" /\ navPos' = 1
              ELSE pc' = "final" /\ navPos' = navPos
    /\ UNCHANGED <<address, priceData, moralisInitialized, knownDtfs, externalCalls, chainOutcomes,
                   balancesResult, defiResult, defiPositions, allErrors, navResults,
                   priceOverrides, navTrace, response>>

\* ------------------------------------------- applyNavPricing, step by step
NavOrder == DtfOrder(knownDtfs)

\* The loop giving up after the first resolution that threw.
Resolvable_StopAfterThrow(pos) ==
    IF \E k \in 1..Len(navTrace) : navTrace[k].result = Thrown THEN {}
    ELSE {i \in pos..Len(NavOrder) : HasMatchingToken(allTokens, NavOrder, NavOrder[i])}

\* The registered tokens from position pos on that have a matching token.
Resolvable(pos) ==
    {i \in pos..Len(NavOrder) : HasMatchingToken(allTokens, NavOrder, NavOrder[i])}

Min(S) == CHOOSE x \in S : \A y \in S : x <= y

\* The loop reaches the next registered token with a matching token and
\* calls calculateDtfNAV with the override map as it stands.
NavBegin ==
    /\ pc = "nav"
    /\ UNCHANGED auxVars
    /\ Resolvable(navPos) # {}
    /\ navPos' = Min(Resolvable(navPos))
    /\ navTrace' = Append(navTrace, [dtf |-> NavOrder[Min(Resolvable(navPos))],
                                     overrides |-> priceOverrides,
                                     seen |-> <<>>,
                                     result |-> [kind |-> "pending"]])
    /\ externalCalls' = externalCalls \cup {"rpc"}
    /\ pc' = "resolving"
    /\ UNCHANGED <<address, priceData, moralisInitialized, knownDtfs, chainOutcomes, balancesResult,
                   defiResult, walletTokens, defiPositions, allErrors, defiHoldings,
                   dedupedDefi, allTokens, navResults, priceOverrides, response>>

\* Bookkeeping for navTrace: the basket as the strategy that settled the
\* resolution priced it (empty when the contract call threw).
SeenBasket(knownType, overrides, wFolio, wRToken) ==
    LET w == IF knownType = "rtoken" \/ (knownType # "folio" /\ wFolio.throws)
             THEN wRToken ELSE wFolio
    IN  IF w.throws THEN <<>> ELSE BasketTokens(w.basket, overrides, w.okPrices)

\* The loop body without its catch: a throw of calculateDtfNAV propagates.
TryCalculateDtfNAV_NoCatch(nav) == [propagates |-> (nav = Thrown), nav |-> nav]

\* The try/catch around calculateDtfNAV in the loop of applyNavPricing: what
\* the loop body is left with.  The catch logs and swallows a throw, so
\* nothing propagates out of the loop.
TryCalculateDtfNAV(nav) == [propagates |-> FALSE, nav |-> nav]

\* calculateDtfNAV settles: an accepted NAV is stored and recorded in the
\* override map, a null or a caught throw leaves both maps alone.  (An
\* exception leaving the loop would reject applyNavPricing and end the
\* request in the handler's catch.)
NavEnd ==
    /\ pc = "resolving"
    /\ UNCHANGED auxVars
    /\ LET dtf == NavOrder[navPos]
       IN  \E wFolio \in Worlds(dtf.address.id) :
           \E wRToken \in (IF dtf.type = "folio" THEN {wFolio} ELSE Worlds(dtf.address.id)) :
              LET out == TryCalculateDtfNAV(
                            calculateDtfNAV(dtf.address, dtf.chainId, dtf.type,
                                            priceOverrides, wFolio, wRToken))
                  nav == out.nav
              IN  /\ IF nav.kind = "nav" /\ ~out.propagates
                     THEN /\ navResults' = (NavKey(dtf.chainId, dtf.address) :> nav) @@ navResults
                          /\ priceOverrides' =
                                (AddrLower(dtf.address) :> nav.navPerToken) @@ priceOverrides
                     ELSE UNCHANGED <<navResults, priceOverrides>>
                  /\ navTrace' = [navTrace EXCEPT
                        ![Len(navTrace)].result = nav,
                        ![Len(navTrace)].seen =
                            SeenBasket(dtf.type, priceOverrides, wFolio, wRToken)]
                  /\ IF out.propagates
                     THEN /\ response' = [kind |-> "error500"]
                          /\ pc' = "done"
                          /\ navPos' = navPos
                     ELSE /\ response' = response
                          /\ pc' = "nav"
                          /\ navPos' = navPos + 1
    /\ UNCHANGED <<address, priceData, moralisInitialized, knownDtfs, externalCalls, chainOutcomes,
                   balancesResult, defiResult, walletTokens, defiPositions, allErrors,
                   defiHoldings, dedupedDefi, allTokens>>

\* No registered token with a matching token is left.
NavLoopDone ==
    /\ pc = "nav"
    /\ UNCHANGED auxVars
    /\ Resolvable(navPos) = {}
    /\ pc' = "rsr"
    /\ UNCHANGED <<address, priceData, moralisInitialized, knownDtfs, externalCalls, chainOutcomes,
                   balancesResult, defiResult, walletTokens, defiPositions, allErrors,
                   defiHoldings, dedupedDefi, allTokens, navPos, navResults,
                   priceOverrides, navTrace, response>>

\* The RSR price fetch and the final tokens.map of applyNavPricing.  The
\* price fetch is not inside a try: if initMoralis of getTokenPrice throws,
\* applyNavPricing rejects and the handler's catch answers 500.
NavRsrApply ==
    /\ pc = "rsr"
    /\ UNCHANGED auxVars
    /\ LET wanted == \E i \in 1..Len(allTokens) : IsRsrDerived(allTokens[i])
       IN  \E startOk \in BOOLEAN, ok \in BOOLEAN :
             /\ moralisInitialized => startOk
             /\ ~wanted => (startOk /\ ok)
             /\ IF wanted /\ ~startOk
                THEN /\ response' = [kind |-> "error500"]
                     /\ pc' = "done"
                     /\ UNCHANGED <<allTokens, moralisInitialized>>
                ELSE LET rsrPrice == IF wanted THEN OrNull(getTokenPrice(RSR_ADDRESS, ok))
                                     ELSE NULL
                     IN  /\ allTokens' = [i \in 1..Len(allTokens) |->
                                             ApplyNav(allTokens[i], navResults, rsrPrice)]
                         /\ moralisInitialized' = (moralisInitialized \/ wanted)
                         /\ response' = response
                         /\ pc' = "final"
             /\ externalCalls' = externalCalls \cup
                   (IF wanted THEN (IF moralisInitialized THEN {"price"} ELSE {"start"})
                    ELSE {})
    /\ UNCHANGED <<address, priceData, knownDtfs, chainOutcomes, balancesResult, defiResult,
                   walletTokens, defiPositions, allErrors, defiHoldings, dedupedDefi,
                   navPos, navResults, priceOverrides, navTrace>>

\* Steps 4, 5, 6, the totals and res.json
Finalize ==
    /\ pc = "final"
    /\ UNCHANGED auxVars
    /\ LET kept == SelectSeq(allTokens, NotDust)
           final == SortByValue(recalculatePortfolioPercentages(kept))
           totalUsdValue == TotalValue(final)
           totalDefiValue == TotalValue(dedupedDefi)
                             + TotalValue(SelectSeq(walletTokens, LAMBDA t : t.isDefiPosition))
           navPriced == SelectSeq(final, LAMBDA t : t.priceSource = "nav")
       IN  /\ allTokens' = final
           /\ response' = [kind |-> "portfolio",
                           address |-> ToLowerCase(address),
                           totalUsdValue |-> totalUsdValue,
                           walletTokensValue |-> totalUsdValue - totalDefiValue,
                           defiPositionsValue |-> totalDefiValue,
                           navPricedValue |-> TotalValue(navPriced),
                           tokenCount |-> Len(final),
                           tokens |-> final,
                           defiPositionsIncluded |-> (defiResult.status = "fulfilled"),
                           navPricingApplied |-> (Len(navPriced) > 0),
                           errors |-> allErrors]
    /\ pc' = "done"
    /\ UNCHANGED <<address, priceData, moralisInitialized, knownDtfs, externalCalls, chainOutcomes,
                   balancesResult, defiResult, walletTokens, defiPositions, allErrors,
                   defiHoldings, dedupedDefi, navPos, navResults, priceOverrides,
                   navTrace>>

Next ==
    \/ Validate
    \/ Fetch
    \/ SpamFilter
    \/ PriceRedirect
    \/ Merge
    \/ NavBegin
    \/ NavEnd
    \/ NavLoopDone
    \/ NavRsrApply
    \/ Finalize

Spec == Init /\ [][Next]_vars

\* ------------------------------------------- step 1, call by call
\* The handler's own variables while only the calls of step 1 are followed.
PipelineOff ==
    /\ pc = "off"
    /\ address = ValidMixed
    /\ knownDtfs = KNOWN_DTFS_STATIC
    /\ externalCalls = {}
    /\ chainOutcomes = [i \in ChainIndex |-> Failed]
    /\ balancesResult = NoResult
    /\ defiResult = NoResult
    /\ walletTokens = <<>>
    /\ defiPositions = <<>>
    /\ allErrors = <<>>
    /\ defiHoldings = <<>>
    /\ dedupedDefi = <<>>
    /\ allTokens = <<>>
    /\ navPos = 0
    /\ navResults = EmptyMap
    /\ priceOverrides = EmptyMap
    /\ navTrace = <<>>
    /\ priceData = <<>>
    /\ response = NoResponse

\* A request arrives at a process whose client is started or not; a started
\* client had its key and its one start.
Step1Init ==
    /\ PipelineOff
    /\ moralisInitialized \in BOOLEAN
    /\ apiKey \in BOOLEAN
    /\ moralisInitialized => apiKey
    /\ startCalls = IF moralisInitialized THEN 1 ELSE 0
    /\ task = [t \in Step1Tasks |-> "idle"]
    /\ balQuery = [i \in ChainIndex |-> "none"]
    /\ posQuery = [i \in ChainIndex |-> "none"]
    /\ posChain = 0
    /\ BatchOff /\ CalcOff /\ DtfOff /\ NavCallOff

\* initMoralis up to its first await, called by task t in the state st =
\* [flag, starts, task]: it returns at once when the flag is set, throws
\* when the key is missing, and otherwise invokes Moralis.start and waits.
InitMoralisCall(st, t) ==
    IF st.flag THEN [st EXCEPT !.task[t] = "ready"]
    ELSE IF ~apiKey THEN [st EXCEPT !.task[t] = "failed"]
    ELSE [st EXCEPT !.starts = st.starts + 1, !.task[t] = "awaitStart"]

RECURSIVE InitMoralisCalls(_, _)
InitMoralisCalls(st, ts) ==
    IF ts = <<>> THEN st
    ELSE InitMoralisCalls(InitMoralisCall(st, Head(ts)), Tail(ts))

\* Promise.allSettled([getMultiChainBalances(..), fetchDefiPositions(..)]):
\* both functions are called in one synchronous run, each up to its
\* `await initMoralis()`.
CallStep1 ==
    /\ task[BalancesTask] = "idle"
    /\ task[PositionsTask] = "idle"
    /\ LET st == InitMoralisCalls(
                    [flag |-> moralisInitialized, starts |-> startCalls, task |-> task],
                    <<BalancesTask, PositionsTask>>)
       IN  /\ task' = st.task
           /\ startCalls' = st.starts
    /\ UNCHANGED <<batchVars, calcVars, dtfVars, navCallVars>>
    /\ UNCHANGED <<pipelineVars, moralisInitialized, apiKey, balQuery, posQuery, posChain>>

\* A pending Moralis.start settles; the continuation of initMoralis sets
\* the flag when it fulfilled.
StartSettles(t) ==
    /\ task[t] = "awaitStart"
    /\ \E ok \in BOOLEAN :
          /\ task' = [task EXCEPT ![t] = IF ok THEN "ready" ELSE "failed"]
          /\ moralisInitialized' = (moralisInitialized \/ ok)
    /\ UNCHANGED <<batchVars, calcVars, dtfVars, navCallVars>>
    /\ UNCHANGED <<pipelineVars, apiKey, startCalls, balQuery, posQuery, posChain>>

\* getMultiChainBalances after its await: SUPPORTED_CHAINS.map calls
\* getChainTokenBalances for every chain, each up to its `await initMoralis()`.
MapChains ==
    /\ task[BalancesTask] = "ready"
    /\ LET st == InitMoralisCalls(
                    [flag |-> moralisInitialized, starts |-> startCalls,
                     task |-> [task EXCEPT ![BalancesTask] = "awaitAll"]],
                    [i \in ChainIndex |-> ChainTask(i)])
       IN  /\ task' = st.task
           /\ startCalls' = st.starts
    /\ UNCHANGED <<batchVars, calcVars, dtfVars, navCallVars>>
    /\ UNCHANGED <<pipelineVars, moralisInitialized, apiKey, balQuery, posQuery, posChain>>

\* getChainTokenBalances after its await: the chain's balance query is issued.
ChainIssue(i) ==
    /\ task[ChainTask(i)] = "ready"
    /\ balQuery' = [balQuery EXCEPT ![i] = "pending"]
    /\ task' = [task EXCEPT ![ChainTask(i)] = "awaitQuery"]
    /\ UNCHANGED <<batchVars, calcVars, dtfVars, navCallVars>>
    /\ UNCHANGED <<pipelineVars, moralisInitialized, apiKey, startCalls, posQuery, posChain>>

\* The provider answers a balance query, or the query fails.
BalQuerySettles(i) ==
    /\ balQuery[i] = "pending"
    /\ \E ok \in BOOLEAN :
          /\ balQuery' = [balQuery EXCEPT ![i] = IF ok THEN "fulfilled" ELSE "rejected"]
          /\ task' = [task EXCEPT ![ChainTask(i)] = IF ok THEN "done" ELSE "failed"]
    /\ UNCHANGED <<batchVars, calcVars, dtfVars, navCallVars>>
    /\ UNCHANGED <<pipelineVars, moralisInitialized, apiKey, startCalls, posQuery, posChain>>

\* Promise.allSettled of getMultiChainBalances: every chain has settled.
BalancesAllSettled ==
    /\ task[BalancesTask] = "awaitAll"
    /\ \A i \in ChainIndex : task[ChainTask(i)] \in {"done", "failed"}
    /\ task' = [task EXCEPT ![BalancesTask] = "done"]
    /\ UNCHANGED <<batchVars, calcVars, dtfVars, navCallVars>>
    /\ UNCHANGED <<pipelineVars, moralisInitialized, apiKey, startCalls, balQuery,
                   posQuery, posChain>>

\* fetchDefiPositions at the head of its loop body: the next chain's
\* position query is issued and awaited.
PositionsIssue ==
    /\ task[PositionsTask] = "ready"
    /\ posChain < Len(SUPPORTED_CHAINS)
    /\ posChain' = posChain + 1
    /\ posQuery' = [posQuery EXCEPT ![posChain + 1] = "pending"]
    /\ task' = [task EXCEPT ![PositionsTask] = "awaitQuery"]
    /\ UNCHANGED <<batchVars, calcVars, dtfVars, navCallVars>>
    /\ UNCHANGED <<pipelineVars, moralisInitialized, apiKey, startCalls, balQuery>>

\* The provider answers a position query, or the query fails.
PosQuerySettles(i) ==
    /\ posQuery[i] = "pending"
    /\ \E ok \in BOOLEAN :
          posQuery' = [posQuery EXCEPT ![i] = IF ok THEN "fulfilled" ELSE "rejected"]
    /\ UNCHANGED <<batchVars, calcVars, dtfVars, navCallVars>>
    /\ UNCHANGED <<pipelineVars, moralisInitialized, apiKey, startCalls, task, balQuery,
                   posChain>>

\* fetchDefiPositions after the awaited query settled (the try or its
\* catch): on to the next chain, or out of the loop.
PositionsResume ==
    /\ task[PositionsTask] = "awaitQuery"
    /\ posQuery[posChain] \in {"fulfilled", "rejected"}
    /\ task' = [task EXCEPT ![PositionsTask] =
                   IF posChain < Len(SUPPORTED_CHAINS) THEN "ready" ELSE "done"]
    /\ UNCHANGED <<batchVars, calcVars, dtfVars, navCallVars>>
    /\ UNCHANGED <<pipelineVars, moralisInitialized, apiKey, startCalls, balQuery,
                   posQuery, posChain>>

\* The steps the process takes by itself once they are ready to run.
Step1Program ==
    \/ CallStep1
    \/ MapChains
    \/ \E i \in ChainIndex : ChainIssue(i)
    \/ BalancesAllSettled
    \/ PositionsIssue
    \/ PositionsResume

Step1Next ==
    \/ CallStep1
    \/ \E t \in Step1Tasks : StartSettles(t)
    \/ MapChains
    \/ \E i \in ChainIndex : ChainIssue(i)
    \/ \E i \in ChainIndex : BalQuerySettles(i)
    \/ BalancesAllSettled
    \/ PositionsIssue
    \/ \E i \in ChainIndex : PosQuerySettles(i)
    \/ PositionsResume

\* The event loop runs every continuation that is ready; nothing obliges the
\* provider to answer.
SpecStep1 == Step1Init /\ [][Step1Next]_vars /\ WF_vars(Step1Program)

\* ------------------------------------------------------- batchedRequests
\* A settled promise as Promise.allSettled reports it.
Fulfilled(v) == [status |-> "fulfilled", value |-> v]
Rejected == [status |-> "rejected", value |-> NULL]

\* The indices of queries.slice(i, i + batchSize)
BatchOf(i, size, n) == {k \in 1..n : i < k /\ k <= i + size}

\* The outcome of awaiting a batch whose calls have all settled, with
\* Promise.all in place of Promise.allSettled: a failed call rejects it.
AwaitBatch_PromiseAll(qs, state, i, size) ==
    LET idx == SelectSeq([k \in 1..Len(qs) |-> k], LAMBDA k : k \in BatchOf(i, size, Len(qs)))
    IN  [rejects |-> \E k \in Range(idx) : state[k] = "rejected",
         batchResults |-> [j \in 1..Len(idx) |-> Fulfilled(qs[idx[j]])]]

\* await Promise.allSettled(batch.map((fn) => fn())) once every call of the
\* batch has settled: one result per call, in the order of the batch.
AwaitBatch(qs, state, i, size) ==
    LET idx == SelectSeq([k \in 1..Len(qs) |-> k], LAMBDA k : k \in BatchOf(i, size, Len(qs)))
    IN  [rejects |-> FALSE,
         batchResults |-> [j \in 1..Len(idx) |->
                             IF state[idx[j]] = "fulfilled"
                             THEN Fulfilled(qs[idx[j]]) ELSE Rejected]]

\* The delay test as `i + batchSize <= queries.length`: a delay follows the
\* last batch too when the batches are full.
DelayNeeded_AfterFullLastBatch(i, size, n) == i + size <= n

\* if (i + batchSize < queries.length) await delay(delayMs)
DelayNeeded(i, size, n) == i + size < n

BatchInit ==
    /\ PipelineOff
    /\ moralisInitialized = TRUE
    /\ Step1Off /\ CalcOff /\ DtfOff /\ NavCallOff
    /\ queries \in {[k \in 1..n |-> 10 * k] : n \in 0..MaxQueries}
    /\ batchSize \in 1..MaxBatchSize
    /\ batchPc = "loop"
    /\ batchStart = 0
    /\ callState = [k \in 1..Len(queries) |-> "notStarted"]
    /\ settled = <<>>
    /\ delaysDone = 0

\* The loop test holds: the calls of the next batch are all started.
StartBatch ==
    /\ batchPc = "loop"
    /\ batchStart < Len(queries)
    /\ callState' = [k \in 1..Len(queries) |->
                        IF k \in BatchOf(batchStart, batchSize, Len(queries))
                        THEN "inFlight" ELSE callState[k]]
    /\ batchPc' = "awaitBatch"
    /\ UNCHANGED <<pipelineVars, moralisInitialized, step1Vars, calcVars, dtfVars, navCallVars, queries, batchSize,
                   batchStart, settled, delaysDone>>

\* A call in flight settles: the query yields its value, or fails.
QuerySettles(k) ==
    /\ callState[k] = "inFlight"
    /\ \E ok \in BOOLEAN :
          callState' = [callState EXCEPT ![k] = IF ok THEN "fulfilled" ELSE "rejected"]
    /\ UNCHANGED <<pipelineVars, moralisInitialized, step1Vars, calcVars, dtfVars, navCallVars, queries, batchSize,
                   batchPc, batchStart, settled, delaysDone>>

\* Every call of the batch has settled: the results are pushed, and the
\* loop goes on, after the delay when more queries are left.
BatchSettled ==
    /\ batchPc = "awaitBatch"
    /\ \A k \in BatchOf(batchStart, batchSize, Len(queries)) :
          callState[k] \in {"fulfilled", "rejected"}
    /\ LET out == AwaitBatch(queries, callState, batchStart, batchSize)
       IN  IF out.rejects
           THEN /\ batchPc' = "rejected"
                /\ UNCHANGED <<settled, batchStart>>
           ELSE /\ settled' = settled \o out.batchResults
                /\ IF DelayNeeded(batchStart, batchSize, Len(queries))
                   THEN batchPc' = "delay" /\ batchStart' = batchStart
                   ELSE batchPc' = "loop" /\ batchStart' = batchStart + batchSize
    /\ UNCHANGED <<pipelineVars, moralisInitialized, step1Vars, calcVars, dtfVars, navCallVars, queries, batchSize,
                   callState, delaysDone>>

\* The inter-batch delay has elapsed.
DelayElapsed ==
    /\ batchPc = "delay"
    /\ delaysDone' = delaysDone + 1
    /\ batchStart' = batchStart + batchSize
    /\ batchPc' = "loop"
    /\ UNCHANGED <<pipelineVars, moralisInitialized, step1Vars, calcVars, dtfVars, navCallVars, queries, batchSize,
                   callState, settled>>

\* The loop test fails: batchedRequests returns the results.
BatchReturn ==
    /\ batchPc = "loop"
    /\ batchStart >= Len(queries)
    /\ batchPc' = "resolved"
    /\ UNCHANGED <<pipelineVars, moralisInitialized, step1Vars, calcVars, dtfVars, navCallVars, queries, batchSize,
                   batchStart, callState, settled, delaysDone>>

BatchNext ==
    \/ StartBatch
    \/ \E k \in 1..Len(queries) : QuerySettles(k)
    \/ BatchSettled
    \/ DelayElapsed
    \/ BatchReturn

SpecBatch == BatchInit /\ [][BatchNext]_vars

\* --------------------------------------------------- calculateSharpeRatio
\* Math.log(dailyValues[i] / dailyValues[i - 1]) is kept as the quotient it
\* is the logarithm of; two log returns are equal exactly when their
\* quotients are.
LogOf(num, den) == [num |-> num, den |-> den]
SameReturn(r1, r2) == r1.num * r2.den = r2.num * r1.den

\* The loop with an else branch that pushes a zero return for a pair with a
\* non-positive member.
LogReturns_ZeroForSkipped(values) ==
    [j \in 1..(IF Len(values) = 0 THEN 0 ELSE Len(values) - 1) |->
        IF values[j] > 0 /\ values[j + 1] > 0
        THEN LogOf(values[j + 1], values[j]) ELSE LogOf(1, 1)]

\* The loop that collects the daily log returns: one for each pair of
\* consecutive values that are both positive.
LogReturns(values) ==
    LET pairs == SelectSeq([j \in 1..(IF Len(values) = 0 THEN 0 ELSE Len(values) - 1) |-> j],
                           LAMBDA j : values[j] > 0 /\ values[j + 1] > 0)
    IN  [k \in 1..Len(pairs) |-> LogOf(values[pairs[k] + 1], values[pairs[k]])]

ReturnsNull == [kind |-> "null"]

\* calculateSharpeRatio: null for a series too short, for fewer than two log
\* returns and for a zero standard deviation (all log returns equal), a
\* number otherwise.
calculateSharpeRatio(values) ==
    IF Len(values) < 2 THEN ReturnsNull
    ELSE LET logReturns == LogReturns(values)
         IN  IF Len(logReturns) < 2 THEN ReturnsNull
             ELSE IF \A a, b \in 1..Len(logReturns) : SameReturn(logReturns[a], logReturns[b])
                  THEN ReturnsNull
                  ELSE [kind |-> "number", logReturns |-> logReturns]

SeriesValues == {0 - 100, 0, 100, 200}

\* ------------------------------------------------------------ calculateCAGR
\* Math.pow(endingValue / beginningValue, 1 / years) - 1, kept as the
\* quotient and the root it is computed from.
Growth(endingValue, beginningValue, years) ==
    [kind |-> "growth", num |-> endingValue, den |-> beginningValue, root |-> years]

ReturnsZero == [kind |-> "zero"]

\* The guard testing for zero only, so that negative inputs reach Math.pow.
calculateCAGR_ZeroTestOnly(beginningValue, endingValue, years) ==
    IF beginningValue = 0 \/ years = 0 THEN ReturnsZero
    ELSE Growth(endingValue, beginningValue, years)

\* calculateCAGR: 0 for a non-positive beginning value or period, the
\* compound annual growth rate otherwise.
calculateCAGR(beginningValue, endingValue, years) ==
    IF beginningValue <= 0 \/ years <= 0 THEN ReturnsZero
    ELSE Growth(endingValue, beginningValue, years)

CagrValues == {0 - 100, 0, 100, 200, 1000, 2000}
CagrYears == {0 - 1, 0, 1, 2}

CalcInit ==
    /\ PipelineOff
    /\ moralisInitialized = FALSE
    /\ Step1Off /\ BatchOff /\ DtfOff /\ NavCallOff
    /\ sharpeResult = NoReturn
    /\ cagrResult = NoReturn
    /\ \/ /\ calcPc = "call"
          /\ dailyValues \in UNION {[1..n -> SeriesValues] : n \in 0..MaxSeries}
          /\ cagrArgs = [beginningValue |-> 0, endingValue |-> 0, years |-> 0]
       \/ /\ calcPc = "callCAGR"
          /\ dailyValues = <<>>
          /\ cagrArgs \in [beginningValue : CagrValues, endingValue : CagrValues,
                           years : CagrYears]

CallSharpe ==
    /\ calcPc = "call"
    /\ sharpeResult' = calculateSharpeRatio(dailyValues)
    /\ calcPc' = "returned"
    /\ UNCHANGED <<pipelineVars, moralisInitialized, step1Vars, batchVars, dtfVars, navCallVars, dailyValues,
                   cagrArgs, cagrResult>>

CallCAGR ==
    /\ calcPc = "callCAGR"
    /\ cagrResult' = calculateCAGR(cagrArgs.beginningValue, cagrArgs.endingValue,
                                   cagrArgs.years)
    /\ calcPc' = "returnedCAGR"
    /\ UNCHANGED <<pipelineVars, moralisInitialized, step1Vars, batchVars, dtfVars, navCallVars, dailyValues,
                   sharpeResult, cagrArgs>>

CalcNext == CallSharpe \/ CallCAGR

SpecCalc == CalcInit /\ [][CalcNext]_vars

\* ----------------------------------------------------------- calculateDtfNAV
\* The strategies one call of calculateDtfNAV runs: the declared one, or
\* for another type Strategy A (calculateFolioNAV) and, from the catch,
\* Strategy B (calculateRTokenNAV).
StrategiesTried(dtfAddress, chainId, knownType, overrides, wFolio) ==
    IF knownType = "folio" THEN <<"A">>
    ELSE IF knownType = "rtoken" THEN <<"B">>
    ELSE IF calculateFolioNAV(dtfAddress, chainId, overrides, wFolio) = Thrown
         THEN <<"A", "B">>
         ELSE <<"A">>

\* What the chain may answer a strategy: as for a registered token, or a
\* basket handler whose status is DISABLED.
DtfWorlds == Worlds("ixedel") \cup {World(FALSE, 2, <<Under("u1", 1)>>, {1})}

DtfInit ==
    /\ PipelineOff
    /\ moralisInitialized = FALSE
    /\ Step1Off /\ BatchOff /\ CalcOff /\ NavCallOff
    /\ dtfCall \in [knownType : {"folio", "rtoken", "undeclared"},
                    wFolio : DtfWorlds, wRToken : DtfWorlds]
    /\ dtfTried = <<>>
    /\ dtfResult = NoReturn
    /\ dtfPc = "call"

CallDtfNAV ==
    /\ dtfPc = "call"
    /\ dtfResult' = calculateDtfNAV(Addr("ixedel", TRUE), 1, dtfCall.knownType, EmptyMap,
                                    dtfCall.wFolio, dtfCall.wRToken)
    /\ dtfTried' = StrategiesTried(Addr("ixedel", TRUE), 1, dtfCall.knownType, EmptyMap,
                                   dtfCall.wFolio)
    /\ dtfPc' = "returned"
    /\ UNCHANGED <<pipelineVars, moralisInitialized, step1Vars, batchVars, calcVars, navCallVars, dtfCall>>

DtfNext == CallDtfNAV

SpecDtfNav == DtfInit /\ [][DtfNext]_vars

\* ------------------------------- the loop of applyNavPricing, concurrently
\* A null-priced holding of a registered token, as applyNavPricing reads it.
NullPriced(dtf) == [chainId |-> dtf.chainId, tokenAddress |-> dtf.address, usdPrice |-> NULL]

\* The token lists handed to a call: null-priced holdings of some of the
\* registered tokens.
CallTokenLists ==
    { <<NullPriced(KNOWN_DTFS_STATIC[1])>>, <<NullPriced(KNOWN_DTFS_STATIC[2])>>,
      <<NullPriced(KNOWN_DTFS_STATIC[1]), NullPriced(KNOWN_DTFS_STATIC[2])>> }

CallOrder == DtfOrder(KNOWN_DTFS_STATIC)

\* The registered tokens from position pos on that the call's tokens match.
CallResolvable(tokens, pos) ==
    {i \in pos..Len(CallOrder) : HasMatchingToken(tokens, CallOrder, CallOrder[i])}

\* The loop issuing the next calculateDtfNAV without awaiting the pending
\* one.
CanStart_NoAwait(inFlight) == TRUE

\* `await calculateDtfNAV(...)` in the loop body: the loop goes on to the
\* next registered token only when no resolution of the call is pending.
CanStart(inFlight) == inFlight = {}

NavCallInit ==
    /\ PipelineOff
    /\ moralisInitialized = TRUE
    /\ Step1Off /\ BatchOff /\ CalcOff /\ DtfOff
    /\ callPc = [r \in Requests |-> "loop"]
    /\ callTokens \in [Requests -> CallTokenLists]
    /\ callPos = [r \in Requests |-> 1]
    /\ callInFlight = [r \in Requests |-> {}]
    /\ callNavResults = [r \in Requests |-> EmptyMap]
    /\ callOverrides = [r \in Requests |-> EmptyMap]
    /\ callTrace = [r \in Requests |-> <<>>]

\* The loop of request r reaches the next registered token with a matching
\* token and calls calculateDtfNAV.
NavCallBegin(r) ==
    /\ callPc[r] = "loop"
    /\ CanStart(callInFlight[r])
    /\ CallResolvable(callTokens[r], callPos[r]) # {}
    /\ LET i == Min(CallResolvable(callTokens[r], callPos[r]))
       IN  /\ callInFlight' = [callInFlight EXCEPT ![r] = @ \cup {i}]
           /\ callPos' = [callPos EXCEPT ![r] = i + 1]
    /\ UNCHANGED <<pipelineVars, moralisInitialized, step1Vars, batchVars, calcVars, dtfVars, callPc, callTokens,
                   callNavResults, callOverrides, callTrace>>

\* calculateDtfNAV of request r for the registered token i settles: an
\* accepted NAV is stored in the call's navResults and priceOverrides.
NavCallSettle(r, i) ==
    /\ i \in callInFlight[r]
    /\ LET dtf == CallOrder[i]
       IN  \E wFolio \in Worlds(dtf.address.id) :
              LET nav == TryCalculateDtfNAV(
                            calculateDtfNAV(dtf.address, dtf.chainId, dtf.type,
                                            callOverrides[r], wFolio, wFolio)).nav
              IN  /\ IF nav.kind = "nav"
                     THEN /\ callNavResults' = [callNavResults EXCEPT ![r] =
                                (NavKey(dtf.chainId, dtf.address) :> nav) @@ @]
                          /\ callOverrides' = [callOverrides EXCEPT ![r] =
                                (AddrLower(dtf.address) :> nav.navPerToken) @@ @]
                     ELSE UNCHANGED <<callNavResults, callOverrides>>
                  /\ callTrace' = [callTrace EXCEPT ![r] =
                        Append(@, [dtf |-> i, overrides |-> callOverrides[r],
                                   navPerToken |-> IF nav.kind = "nav"
                                                   THEN nav.navPerToken ELSE NULL])]
    /\ callInFlight' = [callInFlight EXCEPT ![r] = @ \ {i}]
    /\ UNCHANGED <<pipelineVars, moralisInitialized, step1Vars, batchVars, calcVars, dtfVars, callPc, callTokens,
                   callPos>>

\* The loop of request r has gone through the registered tokens.
NavCallLoopDone(r) ==
    /\ callPc[r] = "loop"
    /\ callInFlight[r] = {}
    /\ CallResolvable(callTokens[r], callPos[r]) = {}
    /\ callPc' = [callPc EXCEPT ![r] = "rsr"]
    /\ UNCHANGED <<pipelineVars, moralisInitialized, step1Vars, batchVars, calcVars, dtfVars, callTokens, callPos,
                   callInFlight, callNavResults, callOverrides, callTrace>>

NavCallNext ==
    \E r \in Requests :
        \/ NavCallBegin(r)
        \/ \E i \in 1..Len(CallOrder) : NavCallSettle(r, i)
        \/ NavCallLoopDone(r)

SpecNavCalls == NavCallInit /\ [][NavCallNext]_vars

\* ================================================================ claims
\* The holdings at every point of the pipeline where the program holds a
\* list of them.
PipelineHoldings ==
    Range(walletTokens) \cup Range(defiHoldings) \cup Range(allTokens)
    \cup (IF response.kind = "portfolio" THEN Range(response.tokens) ELSE {})

\* C1 (as claimed): in every holding of the pipeline -- after fetch
\* normalisation, after the DeFi conversion, after the price redirect, after
\* NAV pricing and in the final tokens list -- a null usdPrice comes with a
\* null usdValue.
C1_NullPriceImpliesNullValue ==
    \A h \in PipelineHoldings : h.usdPrice = NULL => h.usdValue = NULL

\* C2 (as claimed): every holding of the final tokens list that has a value
\* has value = balance x price.
C2_ValueIsBalanceTimesPrice ==
    response.kind = "portfolio" =>
        \A h \in Range(response.tokens) :
            h.usdValue # NULL =>
                /\ h.usdPrice # NULL
                /\ h.usdValue = h.balanceFormatted * h.usdPrice

\* A provider entry that getMultiChainBalances does not drop as known dust.
KeptByFetch(r) == r.usdValue = NULL \/ r.usdValue = 0 \/ r.usdValue >= DUST_THRESHOLD_USD

\* C3: once the per-chain balance queries are issued, getMultiChainBalances
\* fulfils whatever chains fail; a failed chain has exactly one error entry
\* and no holding, a chain that answered has no error entry and its (non-dust)
\* holdings, one per provider entry.
C3_ChainFailureIsolated ==
    "balances" \in externalCalls =>
        /\ balancesResult.status = "fulfilled"
        /\ Len(balancesResult.errors) = Cardinality({i \in ChainIndex : ~chainOutcomes[i].ok})
        /\ \A i \in ChainIndex :
              LET c == SUPPORTED_CHAINS[i]
                  errs == {k \in 1..Len(balancesResult.errors) : balancesResult.errors[k].chain = c}
                  held == {k \in 1..Len(balancesResult.tokens) : balancesResult.tokens[k].chainId = c}
                  kept == {k \in 1..Len(chainOutcomes[i].result) : KeptByFetch(chainOutcomes[i].result[k])}
              IN  IF chainOutcomes[i].ok
                  THEN /\ errs = {}
                       /\ Cardinality(held) = Cardinality(kept)
                       /\ {balancesResult.tokens[k].tokenAddress.id : k \in held}
                            = {chainOutcomes[i].result[k].tok : k \in kept}
                  ELSE /\ Cardinality(errs) = 1
                       /\ held = {}

\* C3 witness: chain 1 failed, chain 8453 answered, and its holding is returned
\* next to the one error.
C3_Witness ==
    /\ "balances" \in externalCalls
    /\ ~chainOutcomes[1].ok
    /\ chainOutcomes[2].ok
    /\ Len(balancesResult.tokens) = 1
    /\ balancesResult.tokens[1].chainId = 8453
    /\ Len(balancesResult.errors) = 1

\* '0x' followed by exactly 40 hex digits of either case
WellFormedAddress(a) ==
    /\ Len(a) - 2 = 40
    /\ SubSeq(a, 1, 2) = <<"0", "x">>
    /\ Range(SubSeq(a, 3, Len(a))) \subseteq {"0", "1", "9", "a", "f", "A", "F"}

\* C4: no external call precedes the address check, and a request whose
\* address is missing or malformed issues none at all and ends with the
\* error response.
C4_InvalidAddressRejectedFirst ==
    /\ pc = "request" => externalCalls = {}
    /\ ~WellFormedAddress(address) =>
          /\ externalCalls = {}
          /\ pc \in {"request", "done"}
          /\ pc = "done" => response.kind = "error400"

\* C4 witness: an address of 41 hex digits was rejected.
C4_Witness ==
    /\ pc = "done"
    /\ response.kind = "error400"
    /\ Len(address) = 43
    /\ externalCalls = {}

\* C5: a request with a well-formed address never gets an error response;
\* it ends with the portfolio response, and every failed fetch is an entry
\* of its errors list.
C5_WellFormedRequestGetsPortfolio ==
    WellFormedAddress(address) =>
        /\ response.kind \in {"none", "portfolio"}
        /\ pc = "done" =>
              /\ response.kind = "portfolio"
              /\ balancesResult.status = "rejected" =>
                    \E e \in Range(response.errors) : e.source = "balances"
              /\ defiResult.status = "rejected" =>
                    \E e \in Range(response.errors) : e.source = "defi"
              /\ \A i \in ChainIndex :
                    ("balances" \in externalCalls /\ ~chainOutcomes[i].ok) =>
                        \E e \in Range(response.errors) : e.chain = SUPPORTED_CHAINS[i]

\* C5 witness: the position fetch was rejected, a chain's balance query
\* failed and a NAV resolution threw, and the request ended with the
\* portfolio.
C5_Witness ==
    /\ pc = "done"
    /\ response.kind = "portfolio"
    /\ defiResult.status = "rejected"
    /\ balancesResult.status = "fulfilled"
    /\ ~chainOutcomes[2].ok
    /\ \E k \in 1..Len(navTrace) : navTrace[k].result = Thrown
    /\ Len(response.errors) = 2

\* The merged list is in allTokens from the merge step until the final
\* filter; walletTokens \o dedupedDefi keeps it as it was merged.
MergedStages == {"nav", "resolving", "rsr", "final"}
MergedList == walletTokens \o dedupedDefi

InReceiptTable(t) ==
    \E p \in Range(DefiProtocols) : t.tokenAddress \in DEFI_PROTOCOL_TOKENS(p, t.chainId)

\* C6: a wallet holding whose address is in the receipt-token table is
\* tagged, and when a DeFi-derived holding has its (chainId, symbol) the
\* merged list has exactly one entry for that key, the wallet holding.
C6_TaggedWalletHoldingKept ==
    pc \in MergedStages =>
        \A i \in 1..Len(allTokens) :
            LET t == allTokens[i]
            IN  (t.origin = "wallet" /\ InReceiptTable(t)
                    /\ \E h \in Range(defiHoldings) : Key(h) = Key(t))
                => /\ t.isDefiPosition
                   /\ {j \in 1..Len(allTokens) : Key(allTokens[j]) = Key(t)} = {i}

\* C6 witness: a tagged wallet holding met a DeFi-derived holding of its key.
C6_Witness ==
    /\ pc \in MergedStages
    /\ \E i \in 1..Len(allTokens) :
          /\ allTokens[i].origin = "wallet"
          /\ InReceiptTable(allTokens[i])
          /\ \E h \in Range(defiHoldings) : Key(h) = Key(allTokens[i])
    /\ Len(dedupedDefi) < Len(defiHoldings)

\* C7 (as claimed): no two entries of the merged list have the same chainId
\* and the same token address.
C7_NoTwoEntriesSameToken ==
    pc \in MergedStages =>
        \A i, j \in 1..Len(allTokens) :
            (i < j /\ allTokens[i].tokenAddress # NoAddr
                   /\ allTokens[i].chainId = allTokens[j].chainId)
            => AddrLower(allTokens[i].tokenAddress) # AddrLower(allTokens[j].tokenAddress)

\* Position of a registered token in KNOWN_DTFS.
RegPos(d) == CHOOSE i \in 1..Len(knownDtfs) : knownDtfs[i] = d
SeenTotal(seen) == SeqSum([i \in 1..Len(seen) |-> OrZero(seen[i].usdValue)])

\* C8: for registered tokens A and B of one chain that both have a
\* null-priced holding: if A is registered before B, A's resolution is over
\* when B's starts, an accepted NAV of A is in the override map B's
\* resolution gets, and B prices A in its basket from the map; if A is
\* registered after B, B's resolution has no override entry for A and A in
\* B's basket stays without price and value.
C8_DependencyOrder ==
    \A k \in 1..Len(navTrace) :
        LET B == navTrace[k].dtf
            ov == navTrace[k].overrides
            inBasket(A) == {i \in 1..Len(navTrace[k].seen) :
                               AddrLower(navTrace[k].seen[i].address) = AddrLower(A.address)}
        IN  \A A \in Range(knownDtfs) :
              (A # B /\ A.chainId = B.chainId /\ HasMatchingToken(MergedList, NavOrder, A)) =>
                IF RegPos(A) < RegPos(B)
                THEN \E j \in 1..(k - 1) :
                        /\ navTrace[j].dtf = A
                        /\ navTrace[j].result.kind # "pending"
                        /\ navTrace[j].result.kind = "nav" =>
                              /\ AddrLower(A.address) \in DOMAIN ov
                              /\ ov[AddrLower(A.address)] = navTrace[j].result.navPerToken
                              /\ \A i \in inBasket(A) :
                                    /\ navTrace[k].seen[i].fromOverride
                                    /\ navTrace[k].seen[i].usdPrice = navTrace[j].result.navPerToken
                ELSE /\ AddrLower(A.address) \notin DOMAIN ov
                     /\ \A i \in inBasket(A) :
                           /\ ~navTrace[k].seen[i].fromOverride
                           /\ navTrace[k].seen[i].usdPrice = NULL
                           /\ navTrace[k].seen[i].usdValue = NULL

\* C8 witness: ixEdel, registered first, met ixETH in its basket and could
\* not price it; ixETH then priced ixEdel in its basket from the override
\* map.
C8_Witness ==
    /\ Len(navTrace) = 2
    /\ navTrace[1].dtf.symbol = "ixEdel"
    /\ navTrace[1].result.kind = "nav"
    /\ \E i \in 1..Len(navTrace[1].seen) :
          /\ navTrace[1].seen[i].address.id = "ixeth"
          /\ navTrace[1].seen[i].usdPrice = NULL
    /\ navTrace[2].dtf.symbol = "ixETH"
    /\ navTrace[2].result.kind = "nav"
    /\ \E i \in 1..Len(navTrace[2].seen) :
          /\ navTrace[2].seen[i].address.id = "ixedel"
          /\ navTrace[2].seen[i].fromOverride
          /\ navTrace[2].seen[i].usdPrice = navTrace[1].result.navPerToken

\* The holdings of the merged list a registered token's resolution is for.
HoldingsOf(d) ==
    {i \in 1..Len(MergedList) :
        /\ MergedList[i].usdPrice = NULL
        /\ MergedList[i].tokenAddress # NoAddr
        /\ MergedList[i].chainId = d.chainId
        /\ AddrLower(MergedList[i].tokenAddress) = AddrLower(d.address)}

\* C9: a resolution yields a NAV only for a non-empty basket with a
\* strictly positive total (for both strategies); when it yields none, the
\* token gets no override entry and no NAV result, and applyNavPricing
\* returns its holdings with the null price, the value they came with and no
\* 'nav' tag.
C9_OnlyPositiveNavAccepted ==
    /\ \A w \in Worlds("ethplus") \cup Worlds("ixedel") :
          /\ calculateRTokenNAV(Addr("ethplus", TRUE), 1, priceOverrides, w).kind = "nav"
                => SeenTotal(BasketTokens(w.basket, priceOverrides, w.okPrices)) > 0
          /\ calculateFolioNAV(Addr("ethplus", TRUE), 1, priceOverrides, w).kind = "nav"
                => SeenTotal(BasketTokens(w.basket, priceOverrides, w.okPrices)) > 0
    /\ \A k \in 1..Len(navTrace) :
          LET d == navTrace[k].dtf
              r == navTrace[k].result
              seen == navTrace[k].seen
          IN  r.kind # "pending" =>
                /\ r.kind = "nav" <=> (Len(seen) > 0 /\ SeenTotal(seen) > 0)
                /\ r.kind = "nav" => r.navPerToken = SeenTotal(seen)
                /\ r.kind # "nav" =>
                      /\ AddrLower(d.address) \notin DOMAIN priceOverrides
                      /\ NavKey(d.chainId, d.address) \notin DOMAIN navResults
                      /\ pc = "final" =>
                            \A i \in HoldingsOf(d) :
                                /\ allTokens[i].usdPrice = NULL
                                /\ allTokens[i].usdValue = MergedList[i].usdValue
                                /\ allTokens[i].priceSource # "nav"
                      /\ response.kind = "portfolio" =>
                            \A t \in Range(response.tokens) :
                                (t.chainId = d.chainId
                                  /\ AddrLower(t.tokenAddress) = AddrLower(d.address))
                                => (t.usdPrice = NULL /\ t.priceSource # "nav")

\* C9 witness: a resolution found a basket whose total is zero, and
\* applyNavPricing has returned the token's holding unpriced.
C9_Witness ==
    /\ pc = "final"
    /\ \E k \in 1..Len(navTrace) :
          /\ navTrace[k].result = NullNav
          /\ Len(navTrace[k].seen) > 0
          /\ HoldingsOf(navTrace[k].dtf) # {}
          /\ \A i \in HoldingsOf(navTrace[k].dtf) : allTokens[i].usdPrice = NULL

\* C10: a resolution that throws leaves its token without override entry
\* and NAV result, applyNavPricing still resolves every registered token
\* that has a null-priced holding, and the request does not fail.
C10_FailureDoesNotAbortLoop ==
    /\ response.kind # "error500"
    /\ \A k \in 1..Len(navTrace) :
          navTrace[k].result = Thrown =>
              /\ AddrLower(navTrace[k].dtf.address) \notin DOMAIN priceOverrides
              /\ NavKey(navTrace[k].dtf.chainId, navTrace[k].dtf.address) \notin DOMAIN navResults
    /\ (pc \in {"rsr", "final", "done"} /\ navPos > 0) =>
          \A d \in Range(NavOrder) :
              HasMatchingToken(MergedList, NavOrder, d) =>
                  \E k \in 1..Len(navTrace) :
                      navTrace[k].dtf = d /\ navTrace[k].result.kind # "pending"

\* C10 witness: the first resolution threw and the second produced a NAV.
C10_Witness ==
    /\ Len(navTrace) = 2
    /\ navTrace[1].result = Thrown
    /\ navTrace[2].result.kind = "nav"
    /\ AddrLower(navTrace[2].dtf.address) \in DOMAIN priceOverrides

\* Whether a resolution priced every underlying of the basket it saw.
AllSeenPriced(seen) == \A i \in 1..Len(seen) : seen[i].usdPrice # NULL

\* C11 (as claimed): an accepted NAV whose basket has an unpriced underlying
\* is applied to every null-priced holding of its token (price = NAV, value
\* = balance x NAV, source 'nav', flag false); and in the response a
\* NAV-priced holding's allUnderlyingPriced is true exactly when every
\* underlying of the basket got a price.
C11_PartialNavApplied ==
    /\ pc = "final" =>
          \A k \in 1..Len(navTrace) :
              LET d == navTrace[k].dtf
                  r == navTrace[k].result
              IN  (r.kind = "nav" /\ ~AllSeenPriced(navTrace[k].seen)) =>
                    \A i \in HoldingsOf(d) :
                        /\ allTokens[i].usdPrice = r.navPerToken
                        /\ allTokens[i].usdValue = allTokens[i].balanceFormatted * r.navPerToken
                        /\ allTokens[i].priceSource = "nav"
                        /\ allTokens[i].allUnderlyingPriced = "false"
    /\ response.kind = "portfolio" =>
          \A t \in Range(response.tokens) :
              t.priceSource = "nav" =>
                  \E k \in 1..Len(navTrace) :
                      /\ navTrace[k].dtf.chainId = t.chainId
                      /\ AddrLower(navTrace[k].dtf.address) = AddrLower(t.tokenAddress)
                      /\ (t.allUnderlyingPriced = "true") <=> AllSeenPriced(navTrace[k].seen)

\* A holding without its percentage, and how often it occurs in a list.
Strip(t) == [t EXCEPT !.portfolioPercentage = Percent(0, 1)]
Count(list, h) == Cardinality({i \in 1..Len(list) : Strip(list[i]) = h})

\* Null value, or a value of at least 1.00 (100 cents).
KeptByDustRule(t) == t.usdValue = NULL \/ t.usdValue >= 100

Valued == {i \in 1..Len(response.tokens) : response.tokens[i].usdValue # NULL}

RECURSIVE SumOver(_, _)
SumOver(S, f) ==
    IF S = {} THEN 0
    ELSE LET x == CHOOSE y \in S : TRUE IN f[x] + SumOver(S \ {x}, f)

\* C13: in a portfolio response with at least one valued holding, every
\* valued holding's portfolioPercentage equals usdValue / totalUsdValue x 100,
\* and these percentages add up to 100.
C13_PercentagesSumTo100 ==
    (response.kind = "portfolio" /\ Valued # {}) =>
        LET toks == response.tokens
            total == response.totalUsdValue
        IN  /\ total > 0
            /\ \A i \in Valued :
                  /\ toks[i].portfolioPercentage.den > 0
                  /\ toks[i].portfolioPercentage.num * total
                        = toks[i].usdValue * 100 * toks[i].portfolioPercentage.den
            /\ \A i, j \in Valued :
                  toks[i].portfolioPercentage.den = toks[j].portfolioPercentage.den
            /\ \A i \in Valued :
                  SumOver(Valued, [k \in Valued |-> toks[k].portfolioPercentage.num])
                     = 100 * toks[i].portfolioPercentage.den

\* C13 witness: the response lists a wallet holding priced by the market, a
\* DeFi-derived holding and a NAV-priced holding, each with a value.
C13_Witness ==
    /\ response.kind = "portfolio"
    /\ \E i \in Valued : response.tokens[i].priceSource = "market"
    /\ \E i \in Valued : response.tokens[i].origin = "defi"
    /\ \E i \in Valued : response.tokens[i].priceSource = "nav"
    /\ \E i \in Valued : response.tokens[i].portfolioPercentage.num
                            < 50 * response.tokens[i].portfolioPercentage.den

\* C14: in the tokens list of a portfolio response, a valued holding is
\* never followed by a holding of greater value, and a holding with a null
\* value is followed by null-valued holdings only.
C14_SortedNullsLast ==
    response.kind = "portfolio" =>
        \A i, j \in 1..Len(response.tokens) :
            i < j =>
              LET a == response.tokens[i]
                  b == response.tokens[j]
              IN  /\ (a.usdValue # NULL /\ b.usdValue # NULL) => a.usdValue >= b.usdValue
                  /\ a.usdValue = NULL => b.usdValue = NULL

\* C14 witness: a holding that was merged with a null value ahead of valued
\* holdings is listed after them, and two valued holdings that were merged
\* in ascending order are listed in descending order.
C14_Witness ==
    /\ response.kind = "portfolio"
    /\ \E i, j \in 1..Len(MergedList) : \E a, b \in 1..Len(response.tokens) :
          /\ i < j /\ a < b
          /\ response.tokens[b].symbol = MergedList[i].symbol
          /\ response.tokens[a].symbol = MergedList[j].symbol
          /\ response.tokens[b].usdValue = NULL
          /\ response.tokens[a].usdValue # NULL
    /\ \E i, j \in 1..Len(MergedList) : \E a, b \in 1..Len(response.tokens) :
          /\ i < j /\ a < b
          /\ response.tokens[b].symbol = MergedList[i].symbol
          /\ response.tokens[a].symbol = MergedList[j].symbol
          /\ MergedList[i].usdValue # NULL
          /\ MergedList[j].usdValue # NULL
          /\ response.tokens[a].usdValue > response.tokens[b].usdValue

\* The sum of the known values of the holdings of a list that satisfy P.
ValueOf(list, P(_)) ==
    SumOver({i \in 1..Len(list) : P(list[i]) /\ list[i].usdValue # NULL},
            [i \in 1..Len(list) |-> list[i].usdValue])

\* C15 (as claimed): in a portfolio response defiPositionsValue is the sum
\* of the final values of the returned holdings that are DeFi-origin or
\* wallet holdings tagged as DeFi positions, and walletTokensValue is the
\* sum of the final values of the other returned holdings.
C15_BreakdownFromFinalValues ==
    response.kind = "portfolio" =>
        /\ response.defiPositionsValue
              = ValueOf(response.tokens, LAMBDA t : t.isDefiPosition)
        /\ response.walletTokensValue
              = ValueOf(response.tokens, LAMBDA t : ~t.isDefiPosition)

C17_PositionQueriesNotSerialised ==
    /\ (\E i \in ChainIndex : posQuery[i] # "none")
          ~> (\A i \in ChainIndex : posQuery[i] # "none")
    /\ (\E i \in ChainIndex : balQuery[i] # "none")
          ~> (\A i \in ChainIndex : balQuery[i] # "none")

\* C18: batchedRequests never rejects, and when it resolves the results
\* hold one entry per query in the order of the queries: rejected for a
\* query that failed, fulfilled with the query's value otherwise.
C18_BatchNeverRejects ==
    /\ batchPc # "rejected"
    /\ batchPc = "resolved" =>
          /\ Len(settled) = Len(queries)
          /\ \A k \in 1..Len(queries) :
                /\ callState[k] \in {"fulfilled", "rejected"}
                /\ settled[k].status = callState[k]
                /\ callState[k] = "fulfilled" => settled[k].value = queries[k]

\* C18 witness: three queries in batches of two, the first and the last
\* failed, and batchedRequests resolved.
C18_Witness ==
    /\ batchPc = "resolved"
    /\ Len(queries) = 3
    /\ batchSize = 2
    /\ callState = <<"rejected", "fulfilled", "rejected">>

\* The number of the batch (from 0) that query k belongs to.
BatchNo(k) == (k - 1) \div batchSize

\* C19: at most batchSize calls are in flight; a call is started only when
\* every call of the earlier batches has settled and a delay has elapsed
\* after each earlier batch; and a delay is waited between batches only,
\* never after the last one.
C19_BatchesBounded ==
    batchPc # "off" =>
        /\ Cardinality({k \in 1..Len(queries) : callState[k] = "inFlight"}) <= batchSize
        /\ \A k \in 1..Len(queries) :
              callState[k] # "notStarted" =>
                  /\ \A j \in 1..Len(queries) :
                        BatchNo(j) < BatchNo(k) => callState[j] \in {"fulfilled", "rejected"}
                  /\ delaysDone >= BatchNo(k)
        /\ delaysDone <= (IF Len(queries) = 0 THEN 0 ELSE BatchNo(Len(queries)))
        /\ batchPc = "resolved" =>
              delaysDone = (IF Len(queries) = 0 THEN 0 ELSE BatchNo(Len(queries)))

\* C19 witness: four queries in batches of two; the second batch is in
\* flight after the first settled and one delay elapsed.
C19_Witness ==
    /\ Len(queries) = 4
    /\ batchSize = 2
    /\ batchPc = "awaitBatch"
    /\ callState[3] = "inFlight"
    /\ callState[4] = "inFlight"
    /\ delaysDone = 1

\* The pairs of consecutive values of the series that are both positive.
ValidPairs == {j \in 2..Len(dailyValues) : dailyValues[j - 1] > 0 /\ dailyValues[j] > 0}

\* C20: calculateSharpeRatio returns null whenever fewer than two pairs of
\* consecutive values are both strictly positive (so for every series of
\* length at most 2), and a number it returns is computed from exactly one
\* log return per such pair, none for the other pairs.
C20_SharpeNeedsTwoReturns ==
    calcPc = "returned" =>
        /\ Cardinality(ValidPairs) < 2 => sharpeResult.kind = "null"
        /\ Len(dailyValues) <= 2 => sharpeResult.kind = "null"
        /\ sharpeResult.kind = "number" =>
              /\ Len(sharpeResult.logReturns) = Cardinality(ValidPairs)
              /\ \A k \in 1..Len(sharpeResult.logReturns) :
                    \E j \in ValidPairs :
                        sharpeResult.logReturns[k] = [num |-> dailyValues[j],
                                                      den |-> dailyValues[j - 1]]

\* C20 witness: a series of three values with one positive pair and one
\* pair with a zero member returned null.
C20_Witness ==
    /\ calcPc = "returned"
    /\ dailyValues = <<100, 200, 0>>
    /\ sharpeResult.kind = "null"

\* C21: calculateCAGR returns exactly 0 whenever beginningValue <= 0 or
\* years <= 0, and (endingValue / beginningValue)^(1 / years) - 1 for every
\* other input.
C21_CagrZeroOrGrowth ==
    calcPc = "returnedCAGR" =>
        LET b == cagrArgs.beginningValue
            e == cagrArgs.endingValue
            y == cagrArgs.years
        IN  /\ (b <= 0 \/ y <= 0) => cagrResult = [kind |-> "zero"]
            /\ (b > 0 /\ y > 0) =>
                  cagrResult = [kind |-> "growth", num |-> e, den |-> b, root |-> y]

\* C21 witness: a negative beginning value with a positive period returned 0.
C21_Witness ==
    /\ calcPc = "returnedCAGR"
    /\ cagrArgs.beginningValue < 0
    /\ cagrArgs.years > 0
    /\ cagrResult = [kind |-> "zero"]

\* C22 (as claimed): no holding of the portfolio response is spam, whatever
\* its value and whether it was reported as a wallet balance or as a token
\* of a DeFi position.
C22_NoSpamInResponse ==
    response.kind = "portfolio" =>
        \A i \in 1..Len(response.tokens) : ~isSpamToken(response.tokens[i])

\* The constituent types that represent value the wallet owns.
OwnedTypes == {"supply", "deposit", "staked", "lp", "reward"}

\* C23 (as claimed): every DeFi-derived holding of the merged list, and so
\* every DeFi-derived holding counted in the portfolio total, comes from a
\* position constituent of type supply, deposit, staked, lp or reward.
C23_OnlyOwnedConstituents ==
    /\ \A i \in 1..Len(dedupedDefi) : dedupedDefi[i].tokenType \in OwnedTypes
    /\ response.kind = "portfolio" =>
          \A i \in 1..Len(response.tokens) :
              response.tokens[i].origin = "defi" =>
                  response.tokens[i].tokenType \in OwnedTypes

\* The price source tags of the response, "null" standing for null.
PriceSources == {"market", "nav", "redirect", "defi-enrichment", "null"}

\* C24 (as claimed): every holding of the portfolio response has a
\* priceSource among market, nav, redirect, defi-enrichment and null, and
\* its priceSource is null exactly when its price is null.
C24_PriceSourceTag ==
    response.kind = "portfolio" =>
        \A i \in 1..Len(response.tokens) :
            LET t == response.tokens[i]
            IN  /\ t.priceSource \in PriceSources
                /\ t.priceSource = "null" <=> t.usdPrice = NULL

\* C25: step 1c leaves a wallet holding of the redirect table exactly as
\* fetched when its reference-price lookup failed or returned no price, and
\* sets its price, value and source to the reference price, balance x
\* reference price and 'redirect' only when the lookup returned a price;
\* either way the pipeline goes on to the merge step.
C25_RedirectFailureLeavesPrice ==
    [][pc = "redirect" =>
          /\ pc' = "merge"
          /\ Len(walletTokens') = Len(walletTokens)
          /\ \A i \in 1..Len(walletTokens) :
                LET t == walletTokens[i]
                    u == walletTokens'[i]
                    d == priceData'[i]
                    inTable == t.tokenAddress # NoAddr
                               /\ AddrLower(t.tokenAddress) \in RedirectAddrs
                IN  /\ d.looked <=> inTable
                    /\ (~d.looked \/ d.usdPrice = NULL) => u = t
                    /\ (d.looked /\ d.usdPrice # NULL) =>
                          u = [t EXCEPT !.usdPrice = d.usdPrice,
                                        !.usdValue = t.balanceFormatted * d.usdPrice,
                                        !.priceSource = "redirect"]]_vars

\* C25 witness: the lookup for a wallet holding of the redirect table
\* returned no price, the holding still has its market price and source,
\* and the pipeline stands at the merge step.
C25_Witness ==
    /\ pc = "merge"
    /\ \E i \in 1..Len(walletTokens) :
          /\ priceData[i].looked
          /\ priceData[i].usdPrice = NULL
          /\ walletTokens[i].usdPrice = 900
          /\ walletTokens[i].usdValue = 900
          /\ walletTokens[i].priceSource = "market"

\* What Strategy A alone answers the call.
StrategyA == calculateFolioNAV(Addr("ixedel", TRUE), 1, EmptyMap, dtfCall.wFolio)
StrategyB == calculateRTokenNAV(Addr("ixedel", TRUE), 1, EmptyMap, dtfCall.wRToken)

\* C26 (as claimed): for a type that is neither of the two strategies,
\* calculateDtfNAV runs Strategy A first and runs Strategy B whenever
\* Strategy A produced no NAV -- when it threw and when it returned
\* unresolved -- and then returns Strategy B's answer.
C26_FallbackWheneverNoNav ==
    (dtfPc = "returned" /\ dtfCall.knownType = "undeclared") =>
        /\ dtfTried[1] = "A"
        /\ StrategyA.kind = "nav" => (dtfTried = <<"A">> /\ dtfResult = StrategyA)
        /\ StrategyA.kind # "nav" => (dtfTried = <<"A", "B">> /\ dtfResult = StrategyB)

\* C27 (as claimed): every holding of the portfolio response with a null
\* usdValue has portfolioPercentage 0, also when no holding has a value and
\* whatever percentage the provider reported for it.
C27_NullValueZeroPercent ==
    response.kind = "portfolio" =>
        \A i \in 1..Len(response.tokens) :
            response.tokens[i].usdValue = NULL =>
                response.tokens[i].portfolioPercentage.num = 0

\* The registered composite tokens A = ixEdel and B = ixETH; every basket
\* of B contains A, and A is listed before B.
TokenA == KNOWN_DTFS_STATIC[1]
TokenB == KNOWN_DTFS_STATIC[2]

\* A's resolution, if the pass ran one, did not end without a NAV.
ANotFailed(k) ==
    \A j \in 1..(k - 1) : navTrace[j].dtf = TokenA => navTrace[j].result.kind = "nav"

\* C29 (as claimed): when the holdings include a null-priced holding of B,
\* B's resolution reads a non-null override price for A, whether or not the
\* holdings include a null-priced holding of A.
C29_OverrideForAWithoutHolding ==
    \A k \in 1..Len(navTrace) :
        (navTrace[k].dtf = TokenB /\ ANotFailed(k)) =>
            /\ AddrLower(TokenA.address) \in DOMAIN navTrace[k].overrides
            /\ navTrace[k].overrides[AddrLower(TokenA.address)] # NULL

\* The accepted NAV of the registered token a holding matches by chain id
\* and case-insensitive address, as a set (empty when there is none).
AcceptedNavFor(t) ==
    { navResults[key] : key \in
        { q \in DOMAIN navResults :
            /\ t.tokenAddress # NoAddr
            /\ q[1] = t.chainId
            /\ AddrLower(q[2]) = AddrLower(t.tokenAddress) } }

\* C30 (as claimed): the final map of applyNavPricing returns every
\* null-priced holding for which a NAV was accepted with that NAV as price,
\* balance x NAV as value and priceSource 'nav', whatever the letter case of
\* its tokenAddress; holdings with a price come back unchanged and the list
\* keeps its length and order.
C30_NavAppliedWhateverCase ==
    [][(pc = "rsr" /\ pc' = "final") =>
          /\ Len(allTokens') = Len(allTokens)
          /\ \A i \in 1..Len(allTokens) :
                LET t == allTokens[i]
                    u == allTokens'[i]
                IN  /\ t.usdPrice # NULL => u = t
                    /\ t.usdPrice = NULL =>
                          \A nav \in AcceptedNavFor(t) :
                              /\ u.usdPrice = nav.navPerToken
                              /\ u.usdValue = t.balanceFormatted * nav.navPerToken
                              /\ u.priceSource = "nav"
                    /\ u.symbol = t.symbol]_vars

\* The override price of A = ixEdel in a map, NULL when it has no entry.
OverrideOfA(map) ==
    IF AddrLower(TokenA.address) \in DOMAIN map THEN map[AddrLower(TokenA.address)] ELSE NULL

\* C28: in every call of applyNavPricing the registered tokens are resolved
\* one after another in registration order, at most one resolution of the
\* call being in progress; the call's override map changes only in the step
\* that settles the call's one pending resolution, by the entry of the token
\* resolved; and every entry a resolution reads was written by an earlier
\* resolution of the same call, whatever other requests wrote meanwhile.
C28_SequentialPrivateOverrides ==
    /\ [](\A r \in Requests :
            /\ Cardinality(callInFlight[r]) <= 1
            /\ \A j, k \in 1..Len(callTrace[r]) :
                  j < k => callTrace[r][j].dtf < callTrace[r][k].dtf
            /\ \A k \in 1..Len(callTrace[r]) :
                  \A key \in DOMAIN callTrace[r][k].overrides :
                      \E j \in 1..(k - 1) :
                          /\ AddrLower(CallOrder[callTrace[r][j].dtf].address) = key
                          /\ callTrace[r][j].navPerToken = callTrace[r][k].overrides[key])
    /\ [][\A r \in Requests :
            callOverrides'[r] # callOverrides[r] =>
                \E i \in 1..Len(CallOrder) :
                    /\ callInFlight[r] = {i}
                    /\ callInFlight'[r] = {}
                    /\ DOMAIN callOverrides'[r] =
                          DOMAIN callOverrides[r] \cup {AddrLower(CallOrder[i].address)}
                    /\ \A q \in Requests \ {r} : callOverrides'[q] = callOverrides[q]]_vars

\* C28 witness: request 1 has resolved ixEdel and then ixETH, which read
\* request 1's own override for ixEdel, while request 2, in the middle of a
\* resolution, holds a different override for ixEdel.
C28_Witness ==
    /\ Len(callTrace[1]) = 2
    /\ OverrideOfA(callTrace[1][2].overrides) # NULL
    /\ OverrideOfA(callTrace[1][2].overrides) = callTrace[1][1].navPerToken
    /\ OverrideOfA(callOverrides[2]) # NULL
    /\ OverrideOfA(callOverrides[2]) # OverrideOfA(callOverrides[1])
    /\ callInFlight[2] # {}
====
